---- MODULE Spec2Model ----
(***************************************************************************)
(* ArcaNews: the entry/bookmark store (data/news.db), the poster that      *)
(* upserts entries into it, the per-user bookmark buttons, and the         *)
(* wishlist store (data/wishlist.db) with its buttons and visibility rule. *)
(*                                                                         *)
(* Tables are sequences of rows in rowid order (user_settings, read by its *)
(* key only, is the set of its rows).  SQLite's conflict clauses are       *)
(* modelled by what they do: OR IGNORE skips the new row when              *)
(* a PRIMARY KEY or UNIQUE constraint is hit, OR REPLACE deletes every row *)
(* that conflicts and then inserts, a plain INSERT raises.  No connection  *)
(* of the program issues PRAGMA foreign_keys = ON, so the FOREIGN KEY      *)
(* clause of bookmarks is declared but not enforced.                       *)
(***************************************************************************)
EXTENDS Integers, Sequences, FiniteSets, Bags, TLC

VARIABLES
    refresher,      \* the WishlistManager cog: loaded or not, its _refresh_task, and
                    \* every _daily_refresh_loop task created so far
    upstream,       \* per feed item of the Miniflux server: unseen, unread or read
    poller,         \* run_miniflux_loop: its position and the locals of its cycle
    news_entries,   \* table news_entries of data/news.db
    bookmarks,      \* table bookmarks of data/news.db
    channel,        \* entries sent to the channel, each with its bookmark view
    bmPanels,       \* the open PersonalBookmarkView panels (a bag: a user may
                    \* hold several panels of the same content)
    wishlists,      \* table wishlists of data/wishlist.db
    user_settings,  \* table user_settings of data/wishlist.db
    wlPanels,       \* the open PersonalWishlistView panels (a bag)
    wlCalls,        \* add_to_wishlist calls suspended between their SELECT
                    \* and their INSERT (a bag)
    granted,        \* per (user, game id): the add_to_wishlist calls that
                    \* returned True since the row was last deleted
    wlast,          \* the last wishlist operation and what it returned
    refresh,        \* the running refresh_all_wishlist_dates call
    last_refresh,   \* WishlistManager._last_refresh_summary
    listPanel,      \* the open WishlistListPanelView or BookmarksListPanelView
    screen,         \* the message of the list panel and what the library holds
                    \* of its view: dispatched or not, interactions in flight
    now,            \* datetime.now(), a logical clock
    faults,         \* 1 once a store or transport failure was injected, else 0
    last            \* the last operation: its arguments and what it returned

newsVars == <<news_entries, bookmarks, channel, bmPanels, last>>
wlVars == <<wishlists, user_settings, wlPanels, wlCalls, granted, wlast>>
rfVars == <<refresh, last_refresh>>
lpVars == <<listPanel, screen>>
poVars == <<upstream, poller>>
rlVars == <<refresher>>
vars == <<news_entries, bookmarks, channel, bmPanels, last,
          wishlists, user_settings, wlPanels, wlCalls, granted, wlast,
          refresh, last_refresh, listPanel, screen, upstream, poller, refresher,
          now, faults>>

----------------------------------------------------------------------------
(* Bounds                                                                   *)

MaxClock == 3
MaxPanels == 2
MaxCalls == 2
MaxItems == 23

----------------------------------------------------------------------------
(* Python values                                                            *)

None == "None"
NoId == -1
NoTs == -2

Truthy(s) == s # None /\ s # ""

\* x or y, for strings
Or(x, y) == IF Truthy(x) THEN x ELSE y

Users == {1, 2}
NativeIds == {NoId, 0, 1, 2}
Urls == {"https://x.test/a"}
Guids == {"g1"}
Titles == {"t1"}
Descriptions == {"d1"}
Images == {"//x.test/i.png"}
PublishedAts == {1700000000}

\* The raw items of the feed source: no 'entry_id' key; an item carries a
\* url, or it carries a guid and neither url nor native id.
FeedItems ==
    { e \in [entry_id : {None}, id : NativeIds, url : Urls \cup {None},
             guid : Guids \cup {None}, title : Titles,
             published_at : PublishedAts] :
        /\ (e.url # None) = (e.guid = None)
        /\ e.url = None => e.id = NoId }

----------------------------------------------------------------------------
(* Canonical entry id                                                       *)

\* Mutant: the url fallback without its "url:" prefix
canonical_entry_id_bare_url(entry) ==
    IF Truthy(entry.entry_id) THEN entry.entry_id
    ELSE IF entry.id # NoId THEN "miniflux:" \o ToString(entry.id)
    ELSE IF Truthy(entry.url) THEN entry.url
    ELSE ""

canonical_entry_id_from_entry(entry) ==
    IF Truthy(entry.entry_id) THEN entry.entry_id
    ELSE IF entry.id # NoId THEN "miniflux:" \o ToString(entry.id)
    ELSE IF Truthy(entry.url) THEN "url:" \o entry.url
    ELSE ""

\* entry.get('id') is truthy: present and not 0
post_entry_id(entry) ==
    IF entry.id # NoId /\ entry.id # 0
    THEN "miniflux:" \o ToString(entry.id)
    ELSE "url:" \o Or(entry.url, Or(entry.guid, ""))

----------------------------------------------------------------------------
(* SQLite statements on data/news.db                                        *)

\* news_entries: entry_id TEXT PRIMARY KEY, url TEXT NOT NULL UNIQUE
NewsConflict(r, new) == r.entry_id = new.entry_id \/ r.url = new.url

\* bookmarks: PRIMARY KEY (user_id, entry_id)
BookmarkConflict(r, new) == r.user_id = new.user_id /\ r.entry_id = new.entry_id

HasEntry(tbl, eid) == \E i \in 1..Len(tbl) : tbl[i].entry_id = eid

EntryRow(tbl, eid) == tbl[CHOOSE i \in 1..Len(tbl) : tbl[i].entry_id = eid]

\* INSERT OR REPLACE INTO news_entries
InsertOrReplaceNews(tbl, new) ==
    LET Keep(r) == ~NewsConflict(r, new)
    IN  Append(SelectSeq(tbl, Keep), new)

\* A stub insert that replaces the row in conflict
InsertStubReplacing(tbl, new) ==
    Append(SelectSeq(tbl, LAMBDA r : ~NewsConflict(r, new)), new)

\* INSERT OR IGNORE INTO news_entries
InsertOrIgnoreNews(tbl, new) ==
    IF \E i \in 1..Len(tbl) : NewsConflict(tbl[i], new)
    THEN tbl
    ELSE Append(tbl, new)

\* Mutant: the bookmark insert without conflict resolution on the primary key
InsertBookmarkKeepingOld(tbl, new) == Append(tbl, new)

\* INSERT OR REPLACE INTO bookmarks
InsertOrReplaceBookmark(tbl, new) ==
    LET Keep(r) == ~BookmarkConflict(r, new)
    IN  Append(SelectSeq(tbl, Keep), new)

\* DELETE FROM bookmarks WHERE user_id = ? AND entry_id = ?
DeleteBookmark(tbl, u, eid) ==
    LET Keep(r) == ~(r.user_id = u /\ r.entry_id = eid)
    IN  SelectSeq(tbl, Keep)

\* SELECT 1 FROM bookmarks WHERE user_id = ? AND entry_id = ?
is_bookmarked(tbl, u, eid) ==
    \E i \in 1..Len(tbl) : tbl[i].user_id = u /\ tbl[i].entry_id = eid

BookmarkCount(tbl, u, eid) ==
    Cardinality({ i \in 1..Len(tbl) : tbl[i].user_id = u /\ tbl[i].entry_id = eid })

\* The minimal row add_bookmark inserts for an entry it may not know yet
StubRow(eid, title, url, image_url, ts) ==
    [entry_id |-> eid, source |-> None, source_entry_id |-> None,
     url |-> Or(url, ""), title |-> Or(title, ""), summary |-> None,
     content |-> None, image_url |-> image_url, published_at |-> NoTs,
     posted_at |-> ts, extra_json |-> None]

\* The row post_entry writes from the processed embed and the raw entry
PosterRow(entry, desc, image, ts) ==
    [entry_id |-> post_entry_id(entry), source |-> "miniflux",
     source_entry_id |-> IF entry.id # NoId THEN ToString(entry.id) ELSE None,
     url |-> Or(entry.url, ""), title |-> Or(entry.title, ""),
     summary |-> Or(desc, "Aucun contenu disponible"), content |-> None,
     image_url |-> IF image # None /\ SubSeq(image, 1, 2) = "//"
                   THEN "https:" \o image ELSE image,
     published_at |-> entry.published_at,
     posted_at |-> ts, extra_json |-> None]

\* SELECT ... FROM bookmarks b LEFT JOIN news_entries n ON b.entry_id = n.entry_id
\* WHERE b.user_id = ? : one result row per bookmark, entry fields NULL when
\* no news_entries row matches
JoinRow(news, b) ==
    IF HasEntry(news, b.entry_id)
    THEN LET n == EntryRow(news, b.entry_id)
         IN  [entry_id |-> b.entry_id, title |-> n.title, url |-> n.url,
              summary |-> n.summary, content |-> n.content,
              image_url |-> n.image_url, added_at |-> b.added_at,
              published_at |-> n.published_at]
    ELSE [entry_id |-> b.entry_id, title |-> None, url |-> None,
          summary |-> None, content |-> None, image_url |-> None,
          added_at |-> b.added_at, published_at |-> NoTs]

\* ORDER BY b.added_at ASC: the oldest bookmark first
RECURSIVE SortByAddedAsc(_)
SortByAddedAsc(rows) ==
    IF rows = {} THEN <<>>
    ELSE LET r == CHOOSE x \in rows : \A y \in rows : y.added_at >= x.added_at
         IN  <<r>> \o SortByAddedAsc(rows \ {r})

\* ORDER BY b.added_at DESC
RECURSIVE SortByAddedDesc(_)
SortByAddedDesc(rows) ==
    IF rows = {} THEN <<>>
    ELSE LET r == CHOOSE x \in rows : \A y \in rows : y.added_at <= x.added_at
         IN  <<r>> \o SortByAddedDesc(rows \ {r})

get_user_bookmarks(news, bms, u) ==
    SortByAddedDesc({ JoinRow(news, bms[i]) :
                        i \in { j \in 1..Len(bms) : bms[j].user_id = u } })

----------------------------------------------------------------------------
(* State                                                                    *)

NoEntry == [entry_id |-> None, id |-> NoId, url |-> None, guid |-> None,
            title |-> None, published_at |-> NoTs]

\* What the last operation was called with and what it did.
\*   op     the handler that ran
\*   user   the user it acted for (0: none)
\*   entry  the entry dict it was given
\*   key    the entry_id it derived
\*   ret    what the store method or post_entry returned
\*   hadEntry, hadBookmark  the store before the call
\*   clean  no failure was injected into this call
\*   reply  what the interaction answered
Last(op, user, entry, key, ret, hadEntry, hadBookmark, clean, reply) ==
    [op |-> op, user |-> user, entry |-> entry, key |-> key, ret |-> ret,
     hadEntry |-> hadEntry, hadBookmark |-> hadBookmark, clean |-> clean,
     reply |-> reply]

----------------------------------------------------------------------------
(* data/wishlist.db: games, rows and statements                             *)

GameIds == {NoId, 7}
GameNames == {"Game"}
Slugs == {"game"}
CoverUrls == {"//img.test/t_thumb/c.jpg"}
ReleaseDates == {NoTs, 100}
ReleaseLists == {<<>>, <<300, NoTs, 200>>}
PlatformLists == {<<"PC", "PS5">>}

\* The games a search result hands to the wishlist buttons. release_dates
\* holds the "date" of each release_dates element (NoTs: no date). Game 7
\* carries release_dates only, the game without an id first_release_date.
Games ==
    { g \in [id : GameIds, name : GameNames, slug : Slugs,
             cover_url : CoverUrls, first_release_date : ReleaseDates,
             release_dates : ReleaseLists, platforms : PlatformLists] :
        /\ (g.first_release_date # NoTs) = (g.release_dates = <<>>)
        /\ (g.first_release_date # NoTs) = (g.id # 7) }

RealGameIds == GameIds \ {NoId}

\* not game_id: the id is missing or 0
NoGameId(game_id) == game_id = NoId \/ game_id = 0

\* ", ".join(names)
RECURSIVE Join(_, _)
Join(names, sep) ==
    IF names = <<>> THEN ""
    ELSE IF Len(names) = 1 THEN names[1]
    ELSE names[1] \o sep \o Join(Tail(names), sep)

\* [int(rd.get("date")) for rd in rds if rd and rd.get("date")]
Dates(rds) == { rds[i] : i \in { j \in 1..Len(rds) : rds[j] # NoTs /\ rds[j] # 0 } }

Min(S) == CHOOSE m \in S : \A x \in S : m <= x

\* A normalisation that takes the first dated release_dates element
NormalizedReleaseDateFirstNested(game) ==
    IF game.first_release_date # NoTs /\ game.first_release_date # 0
    THEN game.first_release_date
    ELSE IF Dates(game.release_dates) # {}
         THEN SelectSeq(game.release_dates, LAMBDA d : d # NoTs /\ d # 0)[1]
    ELSE game.first_release_date

\* first_release_date as add_to_wishlist normalises it
NormalizedReleaseDate(game) ==
    IF game.first_release_date # NoTs /\ game.first_release_date # 0
    THEN game.first_release_date
    ELSE IF Dates(game.release_dates) # {} THEN Min(Dates(game.release_dates))
    ELSE game.first_release_date

\* The row add_to_wishlist inserts
WishlistRow(user_id, game, ts) ==
    [user_id |-> user_id, game_id |-> game.id,
     name |-> IF game.name = None THEN "Titre inconnu" ELSE game.name,
     slug |-> game.slug, cover_url |-> game.cover_url,
     first_release_date |-> NormalizedReleaseDate(game),
     platforms |-> Join(game.platforms, ", "), added_at |-> ts]

\* A key of wishlists that leaves the user out
WishlistConflictAnyUser(r, user_id, game_id) == r.game_id = game_id

\* PRIMARY KEY (user_id, game_id) of wishlists
WishlistConflict(r, user_id, game_id) ==
    r.user_id = user_id /\ r.game_id = game_id

\* SELECT 1 FROM wishlists WHERE user_id = ? AND game_id = ?
is_in_wishlist(tbl, user_id, game_id) ==
    \E i \in 1..Len(tbl) : WishlistConflict(tbl[i], user_id, game_id)

NoRow == [user_id |-> 0, game_id |-> NoId, name |-> None, slug |-> None,
          cover_url |-> None, first_release_date |-> NoTs, platforms |-> None,
          added_at |-> NoTs]

WishlistRowOf(tbl, user_id, game_id) ==
    IF is_in_wishlist(tbl, user_id, game_id)
    THEN tbl[CHOOSE i \in 1..Len(tbl) : WishlistConflict(tbl[i], user_id, game_id)]
    ELSE NoRow

\* INSERT INTO wishlists without the primary key being checked
InsertWishlistUnchecked(tbl, row) == <<Append(tbl, row), TRUE>>

\* INSERT INTO wishlists: <<table, no IntegrityError>>; a row with the same
\* primary key makes the statement raise and leaves the table as it was
InsertWishlist(tbl, row) ==
    IF is_in_wishlist(tbl, row.user_id, row.game_id) THEN <<tbl, FALSE>>
    ELSE <<Append(tbl, row), TRUE>>

\* DELETE FROM wishlists WHERE user_id = ? AND game_id = ?
DeleteWishlist(tbl, user_id, game_id) ==
    SelectSeq(tbl, LAMBDA r : ~WishlistConflict(r, user_id, game_id))

\* get_user_wishlist: SELECT * FROM wishlists WHERE user_id = ?
get_user_wishlist(tbl, user_id) ==
    SelectSeq(tbl, LAMBDA r : r.user_id = user_id)

\* user_settings is read and written by its primary key user_id only, so
\* the table is the set of its rows.
HasSettings(tbl, user_id) == \E r \in tbl : r.user_id = user_id

SettingsOf(tbl, user_id) == CHOOSE r \in tbl : r.user_id = user_id

\* get_user_visibility answering True for a user without a settings row
get_user_visibility_default_public(tbl, user_id, dbOk) ==
    IF ~dbOk THEN FALSE
    ELSE IF ~HasSettings(tbl, user_id) THEN TRUE
    ELSE SettingsOf(tbl, user_id).public # 0

\* get_user_visibility: False without a row and when the SELECT raises
get_user_visibility(tbl, user_id, dbOk) ==
    IF ~dbOk THEN FALSE
    ELSE IF ~HasSettings(tbl, user_id) THEN FALSE
    ELSE SettingsOf(tbl, user_id).public # 0

\* INSERT INTO user_settings ... ON CONFLICT(user_id) DO UPDATE SET public
UpsertSettings(tbl, user_id, public) ==
    { r \in tbl : r.user_id # user_id }
        \cup {[user_id |-> user_id, public |-> public]}

\* _release_ts of handle_show. The code's 9999999999 is above every date;
\* so is the largest integer the model checker holds.
NoReleaseTs == 2147483647
_release_ts(g) ==
    IF g.first_release_date # NoTs /\ g.first_release_date # 0
    THEN g.first_release_date ELSE NoReleaseTs

\* sorted(user_wishlist, key=_release_ts, reverse=True): a stable sort
RECURSIVE SortByReleaseDesc(_)
SortByReleaseDesc(rows) ==
    IF rows = <<>> THEN <<>>
    ELSE LET rest == SortByReleaseDesc(Tail(rows))
             h == Head(rows)
             k == Cardinality({ i \in 1..Len(rest) : _release_ts(rest[i]) > _release_ts(h) })
         IN  SubSeq(rest, 1, k) \o <<h>> \o SubSeq(rest, k + 1, Len(rest))

NoGame == [id |-> NoId, name |-> None, slug |-> None, cover_url |-> None,
           first_release_date |-> NoTs, release_dates |-> <<>>,
           platforms |-> <<>>]

\* What the last wishlist operation was and what it did:
\*   op         the handler that ran
\*   user       the user of the interaction
\*   target     the user whose wishlist the operation is about
\*   game       the game of the operation
\*   ret        what the manager method returned
\*   hadRow     wishlists held (target, game.id) when the statement ran
\*   rowBefore  that row before the statement ran
\*   clean      no store call of the operation failed
\*   reply      what the interaction answered
\*   content    the wishlist rows the answer shows
WLast(op, user, target, game, ret, hadRow, rowBefore, clean, reply, content) ==
    [op |-> op, user |-> user, target |-> target, game |-> game, ret |-> ret,
     hadRow |-> hadRow, rowBefore |-> rowBefore, clean |-> clean,
     reply |-> reply, content |-> content]

----------------------------------------------------------------------------
(* Initial state: empty databases, nothing posted, no open panel            *)

\* No refresh_all_wishlist_dates call is running
NoRefresh ==
    [pc |-> "idle", igdb |-> TRUE, ids |-> <<>>, next |-> 1,
     updated |-> 0, unchanged |-> 0, missing |-> 0, failed |-> 0,
     kinds |-> <<>>, counted |-> <<>>]

NoSummary == [updated |-> -1, unchanged |-> -1, missing |-> -1, failed |-> -1]

\* No list panel is open
NoPanel ==
    [kind |-> "none", games |-> <<>>, original_games |-> <<>>,
     page_size |-> 1, current_page |-> 0, max_page |-> 0,
     sort_descending |-> TRUE, op |-> "none", from |-> 0]

\* No message with a paginated view has been sent
NoDelivery ==
    [op |-> "none", index |-> 0, outcome |-> "none", after_close |-> FALSE,
     after_timeout |-> FALSE, changed |-> FALSE]

NoScreen ==
    [view |-> "none", components |-> "none", children_disabled |-> FALSE,
     closed |-> FALSE, pending |-> {}, delivered |-> NoDelivery,
     detail |-> <<>>]

\* The unread items the feed server may come to hold
PollIds == {0, 1, 2}

PollItem(id) ==
    [entry_id |-> None, id |-> id, url |-> "https://x.test/a", guid |-> None,
     title |-> "t1", published_at |-> 1700000000]

\* The poller about to fetch, nothing of a cycle in its locals; again is the
\* history of the ids sent to the channel while the channel and the Entry
\* Store already had the item
NoPoll ==
    [pc |-> "fetch", entry_count_before |-> 0, entries |-> <<>>, next |-> 1,
     results |-> <<>>, posted_entry_ids |-> <<>>, marks |-> <<>>,
     sleep_time |-> 0, failure |-> "none", fetches |-> 0, again |-> {}]

\* The cog before its first cog_load: no task, _refresh_task is None (0)
NoRefresher == [loaded |-> FALSE, _refresh_task |-> 0, tasks |-> <<>>, manual |-> 0]

\* Everything but the wishlists table and its history
InitOther ==
    /\ refresher = NoRefresher
    /\ upstream = [id \in PollIds |-> "unseen"]
    /\ poller = NoPoll
    /\ news_entries = <<>>
    /\ bookmarks = <<>>
    /\ channel = {}
    /\ bmPanels = EmptyBag
    /\ user_settings = {}
    /\ wlPanels = EmptyBag
    /\ wlCalls = EmptyBag
    /\ wlast = WLast("init", 0, 0, NoGame, FALSE, FALSE, NoRow, TRUE, "", <<>>)
    /\ refresh = NoRefresh
    /\ last_refresh = NoSummary
    /\ listPanel = NoPanel
    /\ screen = NoScreen
    /\ now = 0
    /\ faults = 0
    /\ last = Last("init", 0, NoEntry, "", FALSE, FALSE, FALSE, TRUE, "")

Init ==
    /\ wishlists = <<>>
    /\ granted = [k \in Users \X RealGameIds |-> 0]
    /\ InitOther

\* A check that lets every user through
IsOwnerAnyone(clicker, user_id) == TRUE

\* if interaction.user.id != self.user_id: answer "not your button", return
IsOwner(clicker, user_id) == clicker = user_id

\* Number of failures among the outcomes of one call
Failed(oks) == Cardinality({ i \in 1..Len(oks) : ~oks[i] })

----------------------------------------------------------------------------
(* DiscordPoster.post_entry                                                 *)

\* channelFound: bot.get_channel returned the channel
\* processOk:    ContentProcessor.process_entry returned an embed
\* desc, image:  the description and image the embed carries
\* dbOk:         the upsert into data/news.db did not raise
\* sendOk:       channel.send did not raise
PostEntry(entry, channelFound, processOk, desc, image, dbOk, sendOk) ==
    LET key == post_entry_id(entry)
        persisted == channelFound /\ processOk /\ dbOk
        sent == channelFound /\ processOk /\ sendOk
        n == Failed(<<channelFound, processOk, dbOk, sendOk>>)
    IN  /\ now < MaxClock
        /\ now' = IF channelFound /\ processOk THEN now + 1 ELSE now
        /\ faults' = IF n > 0 THEN 1 ELSE faults
        /\ news_entries' =
              IF persisted
              THEN InsertOrReplaceNews(news_entries,
                                       PosterRow(entry, desc, image, now + 1))
              ELSE news_entries
        /\ channel' = IF sent THEN channel \cup {entry} ELSE channel
        /\ last' = Last("post_entry", 0, entry, key, sent,
                        HasEntry(news_entries, key), FALSE, n = 0,
                        IF sent THEN "posted" ELSE "")
        /\ UNCHANGED <<bookmarks, bmPanels>>

----------------------------------------------------------------------------
(* BookmarkManager                                                          *)

\* add_bookmark: <<news_entries, bookmarks, return value>> after the call.
\* stubOk: the INSERT OR IGNORE of the stub did not raise (a raise is caught
\*         and the method proceeds)
\* dbOk:   the connection and the bookmark insert did not raise (a raise
\*         leaves nothing committed and returns False)
add_bookmark(news, bms, user_id, entry_id, title, url, image_url, ts, stubOk, dbOk) ==
    IF ~dbOk THEN <<news, bms, FALSE>>
    ELSE <<IF stubOk
           THEN InsertOrIgnoreNews(news, StubRow(entry_id, title, url, image_url, ts))
           ELSE news,
           InsertOrReplaceBookmark(bms, [user_id |-> user_id, entry_id |-> entry_id,
                                         added_at |-> ts, note |-> None]),
           TRUE>>

\* A remove_bookmark that reports whether it deleted a row
remove_bookmark_reporting(bms, user_id, entry_id, dbOk) ==
    IF dbOk THEN <<DeleteBookmark(bms, user_id, entry_id),
                   is_bookmarked(bms, user_id, entry_id)>>
    ELSE <<bms, FALSE>>

\* remove_bookmark: <<bookmarks, return value>> after the call
remove_bookmark(bms, user_id, entry_id, dbOk) ==
    IF dbOk THEN <<DeleteBookmark(bms, user_id, entry_id), TRUE>>
    ELSE <<bms, FALSE>>

\* PersonalBookmarkView: Remove button when bookmarked, else Add button
PersonalBookmarkView(entry, user_id, is_bm) ==
    [entry |-> entry, user_id |-> user_id, is_bookmarked |-> is_bm]

\* EntryBookmarkButton.callback: a user clicks the button under a posted entry
EntryBookmarkButtonClick(user, entry, dbOk) ==
    LET key == canonical_entry_id_from_entry(entry)
        is_bm == dbOk /\ is_bookmarked(bookmarks, user, key)
        pv == PersonalBookmarkView(entry, user, is_bm)
        n == Failed(<<dbOk>>)
    IN  /\ entry \in channel
        /\ BagCardinality(bmPanels) < MaxPanels
        /\ faults' = IF n > 0 THEN 1 ELSE faults
        /\ bmPanels' = bmPanels (+) SetToBag({pv})
        /\ last' = Last("EntryBookmarkButton", user, entry, key, is_bm,
                        HasEntry(news_entries, key),
                        is_bookmarked(bookmarks, user, key), n = 0,
                        IF is_bm THEN "already_bookmarked" ELSE "not_bookmarked")
        /\ UNCHANGED <<news_entries, bookmarks, channel, now>>

\* AddBookmarkButton.callback
AddBookmarkButtonClick(pv, clicker, stubOk, dbOk) ==
    LET entry == pv.entry
        key == canonical_entry_id_from_entry(entry)
        res == add_bookmark(news_entries, bookmarks, pv.user_id, key,
                            Or(entry.title, ""), Or(entry.url, ""), None,
                            now + 1, stubOk, dbOk)
        allowed == IsOwner(clicker, pv.user_id)
        n == Failed(<<stubOk, dbOk>>)
    IN  /\ BagIn(pv, bmPanels)
        /\ ~pv.is_bookmarked
        /\ now < MaxClock
        /\ ~allowed => n = 0
        /\ now' = IF allowed THEN now + 1 ELSE now
        /\ faults' = IF n > 0 THEN 1 ELSE faults
        /\ news_entries' = IF allowed THEN res[1] ELSE news_entries
        /\ bookmarks' = IF allowed THEN res[2] ELSE bookmarks
        /\ bmPanels' = IF allowed /\ res[3]
                       THEN bmPanels (-) SetToBag({pv}) ELSE bmPanels
        /\ last' = Last("AddBookmarkButton", clicker, entry, key,
                        allowed /\ res[3],
                        HasEntry(news_entries, key),
                        is_bookmarked(bookmarks, pv.user_id, key), n = 0,
                        IF ~allowed THEN "forbidden"
                        ELSE IF res[3] THEN "added" ELSE "cannot_add")
        /\ UNCHANGED channel

\* RemoveBookmarkButton.callback
RemoveBookmarkButtonClick(pv, clicker, dbOk) ==
    LET entry == pv.entry
        key == canonical_entry_id_from_entry(entry)
        res == remove_bookmark(bookmarks, pv.user_id, key, dbOk)
        allowed == IsOwner(clicker, pv.user_id)
        n == Failed(<<dbOk>>)
    IN  /\ BagIn(pv, bmPanels)
        /\ pv.is_bookmarked
        /\ ~allowed => n = 0
        /\ faults' = IF n > 0 THEN 1 ELSE faults
        /\ bookmarks' = IF allowed THEN res[1] ELSE bookmarks
        /\ bmPanels' = IF allowed /\ res[2]
                       THEN bmPanels (-) SetToBag({pv}) ELSE bmPanels
        /\ last' = Last("RemoveBookmarkButton", clicker, entry, key,
                        allowed /\ res[2],
                        HasEntry(news_entries, key),
                        is_bookmarked(bookmarks, pv.user_id, key), n = 0,
                        IF ~allowed THEN "forbidden"
                        ELSE IF res[2] THEN "removed" ELSE "cannot_remove")
        /\ UNCHANGED <<news_entries, channel, now>>

\* PersonalBookmarkView times out (60 s): the panel takes no more clicks
BookmarkPanelTimeout(pv) ==
    /\ BagIn(pv, bmPanels)
    /\ bmPanels' = bmPanels (-) SetToBag({pv})
    /\ UNCHANGED <<news_entries, bookmarks, channel, now, faults, last>>

----------------------------------------------------------------------------
(* Specification: entry store, bookmark store, poster, bookmark buttons     *)

\* Oks is the set the outcome flags of the store and transport calls are
\* drawn from: {TRUE} when every call succeeds, BOOLEAN when any may fail.
NextPost(Oks) ==
    \E entry \in FeedItems, channelFound, processOk, dbOk, sendOk \in Oks,
       desc \in Descriptions, image \in Images :
        /\ ~channelFound => processOk /\ dbOk /\ sendOk
        /\ ~processOk => dbOk /\ sendOk
        /\ PostEntry(entry, channelFound, processOk, desc, image, dbOk, sendOk)

NextOpenPanel(Oks) ==
    \E user \in Users, entry \in channel, dbOk \in Oks :
        EntryBookmarkButtonClick(user, entry, dbOk)

NextAdd(Oks) ==
    \E pv \in BagToSet(bmPanels), clicker \in Users, stubOk, dbOk \in Oks :
        /\ ~dbOk => stubOk
        /\ AddBookmarkButtonClick(pv, clicker, stubOk, dbOk)

NextRemove(Oks) ==
    \E pv \in BagToSet(bmPanels), clicker \in Users, dbOk \in Oks :
        RemoveBookmarkButtonClick(pv, clicker, dbOk)

NextPanelTimeout ==
    \E pv \in BagToSet(bmPanels) : BookmarkPanelTimeout(pv)

\* Every store and transport call succeeds
Next ==
    \/ NextPost({TRUE}) /\ UNCHANGED <<wlVars, rfVars, lpVars, poVars, rlVars>>
    \/ NextOpenPanel({TRUE}) /\ UNCHANGED <<wlVars, rfVars, lpVars, poVars, rlVars>>
    \/ NextAdd({TRUE}) /\ UNCHANGED <<wlVars, rfVars, lpVars, poVars, rlVars>>
    \/ NextRemove({TRUE}) /\ UNCHANGED <<wlVars, rfVars, lpVars, poVars, rlVars>>
    \/ NextPanelTimeout /\ UNCHANGED <<wlVars, rfVars, lpVars, poVars, rlVars>>

Spec == Init /\ [][Next]_vars

\* Any store or transport call may fail
NextFaulty ==
    \/ NextPost(BOOLEAN) /\ UNCHANGED <<wlVars, rfVars, lpVars, poVars, rlVars>>
    \/ NextOpenPanel(BOOLEAN) /\ UNCHANGED <<wlVars, rfVars, lpVars, poVars, rlVars>>
    \/ NextAdd(BOOLEAN) /\ UNCHANGED <<wlVars, rfVars, lpVars, poVars, rlVars>>
    \/ NextRemove(BOOLEAN) /\ UNCHANGED <<wlVars, rfVars, lpVars, poVars, rlVars>>
    \/ NextPanelTimeout /\ UNCHANGED <<wlVars, rfVars, lpVars, poVars, rlVars>>

SpecFaulty == Init /\ [][NextFaulty]_vars

----------------------------------------------------------------------------
(* Wishlist buttons (ui_components.py) and WishlistManager (wishlist.py)    *)

\* PersonalWishlistView: button is the one button the panel shows
PersonalWishlistView(game, user_id, is_in) ==
    [game |-> game, user_id |-> user_id,
     button |-> IF is_in THEN "remove" ELSE "add"]

\* view.clear_items(); view.add_item(<the other button>)
SwapButton(panels, pv, button) ==
    IF BagIn(pv, panels)
    THEN (panels (-) SetToBag({pv})) (+) SetToBag({[pv EXCEPT !.button = button]})
    ELSE panels

\* WishlistButton.callback: a user clicks the button under a game
WishlistButtonClick(user, game, dbOk) ==
    LET noId == NoGameId(game.id)
        is_in == is_in_wishlist(wishlists, user, game.id)
        opens == ~noId /\ dbOk
    IN  /\ BagCardinality(wlPanels) < MaxPanels
        /\ noId => dbOk
        /\ faults' = IF dbOk THEN faults ELSE 1
        /\ wlPanels' = IF opens
                       THEN wlPanels (+) SetToBag({PersonalWishlistView(game, user, is_in)})
                       ELSE wlPanels
        /\ wlast' = WLast("WishlistButton", user, user, game, opens /\ is_in,
                          is_in, WishlistRowOf(wishlists, user, game.id), dbOk,
                          IF noId THEN "cannot_add"
                          ELSE IF ~dbOk THEN "error"
                          ELSE IF is_in THEN "in_wishlist" ELSE "not_in_wishlist",
                          <<>>)
        /\ UNCHANGED <<wishlists, user_settings, wlCalls, granted, now>>

\* AddToWishlistButton.callback up to the end of add_to_wishlist's SELECT.
\* The call returns False at once when the game has no id, when the SELECT
\* raises (dbOk false) and when the row exists; otherwise it is suspended
\* in wlCalls with its INSERT still to run.
AddToWishlistButtonClick(pv, clicker, dbOk) ==
    LET game == pv.game
        allowed == IsOwner(clicker, pv.user_id)
        hadRow == is_in_wishlist(wishlists, pv.user_id, game.id)
        returns == NoGameId(game.id) \/ ~dbOk \/ hadRow
    IN  /\ BagIn(pv, wlPanels)
        /\ pv.button = "add"
        /\ BagCardinality(wlCalls) < MaxCalls
        /\ ~allowed => dbOk
        /\ NoGameId(game.id) => dbOk
        /\ faults' = IF dbOk THEN faults ELSE 1
        /\ wlCalls' = IF allowed /\ ~returns
                      THEN wlCalls (+) SetToBag({pv}) ELSE wlCalls
        /\ wlast' = WLast(IF allowed /\ ~returns THEN "add_to_wishlist:select"
                          ELSE "AddToWishlistButton",
                          clicker, pv.user_id, game, FALSE, hadRow,
                          WishlistRowOf(wishlists, pv.user_id, game.id), dbOk,
                          IF ~allowed THEN "forbidden"
                          ELSE IF returns THEN "add_error" ELSE "",
                          <<>>)
        /\ UNCHANGED <<wishlists, user_settings, wlPanels, granted, now>>

\* The rest of add_to_wishlist and of AddToWishlistButton.callback: the
\* INSERT, the commit and the answer. A raise of
\* the INSERT (dbOk false, or the primary key) is caught: the call returns
\* False and the callback answers as for any False.
AddToWishlistInsert(pv, dbOk) ==
    LET game == pv.game
        row == WishlistRow(pv.user_id, game, now + 1)
        res == InsertWishlist(wishlists, row)
        ok == dbOk /\ res[2]
        key == <<pv.user_id, game.id>>
    IN  /\ BagIn(pv, wlCalls)
        /\ now < MaxClock
        /\ now' = now + 1
        /\ faults' = IF dbOk THEN faults ELSE 1
        /\ wlCalls' = wlCalls (-) SetToBag({pv})
        /\ wishlists' = IF ok THEN res[1] ELSE wishlists
        /\ granted' = IF ok THEN [granted EXCEPT ![key] = @ + 1] ELSE granted
        /\ wlPanels' = IF ok THEN SwapButton(wlPanels, pv, "remove") ELSE wlPanels
        /\ wlast' = WLast("add_to_wishlist:insert", pv.user_id, pv.user_id, game, ok,
                          is_in_wishlist(wishlists, pv.user_id, game.id),
                          WishlistRowOf(wishlists, pv.user_id, game.id), dbOk,
                          IF ok THEN "added" ELSE "add_error", <<>>)
        /\ UNCHANGED user_settings

\* remove_from_wishlist: <<wishlists, return value>> after the call
remove_from_wishlist(tbl, user_id, game_id, dbOk) ==
    IF dbOk THEN <<DeleteWishlist(tbl, user_id, game_id), TRUE>>
    ELSE <<tbl, FALSE>>

\* RemoveFromWishlistButton.callback
RemoveFromWishlistButtonClick(pv, clicker, dbOk) ==
    LET game == pv.game
        allowed == IsOwner(clicker, pv.user_id)
        res == remove_from_wishlist(wishlists, pv.user_id, game.id, dbOk)
        ok == allowed /\ res[2]
        key == <<pv.user_id, game.id>>
    IN  /\ BagIn(pv, wlPanels)
        /\ pv.button = "remove"
        /\ ~allowed => dbOk
        /\ faults' = IF dbOk THEN faults ELSE 1
        /\ wishlists' = IF ok THEN res[1] ELSE wishlists
        /\ granted' = IF ok THEN [granted EXCEPT ![key] = 0] ELSE granted
        /\ wlPanels' = IF ok THEN SwapButton(wlPanels, pv, "add") ELSE wlPanels
        /\ wlast' = WLast("RemoveFromWishlistButton", clicker, pv.user_id, game, ok,
                          is_in_wishlist(wishlists, pv.user_id, game.id),
                          WishlistRowOf(wishlists, pv.user_id, game.id), dbOk,
                          IF ~allowed THEN "forbidden"
                          ELSE IF ok THEN "removed" ELSE "remove_error", <<>>)
        /\ UNCHANGED <<user_settings, wlCalls, now>>

\* PersonalWishlistView times out (60 s): the panel takes no more clicks
WishlistPanelTimeout(pv) ==
    /\ BagIn(pv, wlPanels)
    /\ wlPanels' = wlPanels (-) SetToBag({pv})
    /\ UNCHANGED <<wishlists, user_settings, wlCalls, granted, wlast, now, faults>>

\* set_user_visibility: <<user_settings, return value>> after the call
set_user_visibility(tbl, user_id, public, dbOk) ==
    IF dbOk THEN <<UpsertSettings(tbl, user_id, IF public THEN 1 ELSE 0), TRUE>>
    ELSE <<tbl, FALSE>>

\* /wishlist visibility <public>
WishlistVisibility(user, public, dbOk) ==
    LET res == set_user_visibility(user_settings, user, public, dbOk)
    IN  /\ faults' = IF dbOk THEN faults ELSE 1
        /\ user_settings' = res[1]
        /\ wlast' = WLast("wishlist_visibility", user, user, NoGame, res[2],
                          FALSE, NoRow, dbOk,
                          IF ~res[2] THEN "visibility_error"
                          ELSE IF public THEN "now_public" ELSE "now_private",
                          <<>>)
        /\ UNCHANGED <<wishlists, wlPanels, wlCalls, granted, now>>

\* handle_show: /wishlist show [member]. visOk, listOk: the SELECT of
\* get_user_visibility, of get_user_wishlist, did not raise.
handle_show(viewer, target, visOk, listOk) ==
    LET real_visible == get_user_visibility(user_settings, target, visOk)
        denied == target # viewer /\ ~real_visible
        user_wishlist == get_user_wishlist(wishlists, target)
        sorted_wishlist == SortByReleaseDesc(user_wishlist)
    IN  /\ denied => listOk
        /\ faults' = IF visOk /\ listOk THEN faults ELSE 1
        /\ wlast' = WLast("handle_show", viewer, target, NoGame, real_visible,
                          FALSE, NoRow, visOk /\ listOk,
                          IF denied THEN "private"
                          ELSE IF ~listOk THEN "error"
                          ELSE IF user_wishlist = <<>> THEN "empty" ELSE "shown",
                          IF denied \/ ~listOk THEN <<>> ELSE sorted_wishlist)
        /\ UNCHANGED <<wishlists, user_settings, wlPanels, wlCalls, granted, now>>

----------------------------------------------------------------------------
(* Specification: wishlist store, wishlist buttons, visibility, show        *)

NextWishlistButton(Oks) ==
    \E user \in Users, game \in Games, dbOk \in Oks :
        WishlistButtonClick(user, game, dbOk)

NextAddToWishlist(Oks) ==
    \E pv \in BagToSet(wlPanels), clicker \in Users, dbOk \in Oks :
        AddToWishlistButtonClick(pv, clicker, dbOk)

NextAddToWishlistInsert(Oks) ==
    \E pv \in BagToSet(wlCalls), dbOk \in Oks :
        AddToWishlistInsert(pv, dbOk)

NextRemoveFromWishlist(Oks) ==
    \E pv \in BagToSet(wlPanels), clicker \in Users, dbOk \in Oks :
        RemoveFromWishlistButtonClick(pv, clicker, dbOk)

NextWishlistPanelTimeout ==
    \E pv \in BagToSet(wlPanels) : WishlistPanelTimeout(pv)

NextVisibility(Oks) ==
    \E user \in Users, public \in BOOLEAN, dbOk \in Oks :
        WishlistVisibility(user, public, dbOk)

NextShow(Oks) ==
    \E viewer, target \in Users, visOk, listOk \in Oks :
        handle_show(viewer, target, visOk, listOk)

\* Wishlist buttons; every store call succeeds
NextWishlist ==
    \/ NextWishlistButton({TRUE}) /\ UNCHANGED <<newsVars, rfVars, lpVars, poVars, rlVars>>
    \/ NextAddToWishlist({TRUE}) /\ UNCHANGED <<newsVars, rfVars, lpVars, poVars, rlVars>>
    \/ NextAddToWishlistInsert({TRUE}) /\ UNCHANGED <<newsVars, rfVars, lpVars, poVars, rlVars>>
    \/ NextRemoveFromWishlist({TRUE}) /\ UNCHANGED <<newsVars, rfVars, lpVars, poVars, rlVars>>
    \/ NextWishlistPanelTimeout /\ UNCHANGED <<newsVars, rfVars, lpVars, poVars, rlVars>>

SpecWishlist == Init /\ [][NextWishlist]_vars

\* Wishlist buttons; any store call may fail
NextWishlistFaulty ==
    \/ NextWishlistButton(BOOLEAN) /\ UNCHANGED <<newsVars, rfVars, lpVars, poVars, rlVars>>
    \/ NextAddToWishlist(BOOLEAN) /\ UNCHANGED <<newsVars, rfVars, lpVars, poVars, rlVars>>
    \/ NextAddToWishlistInsert(BOOLEAN) /\ UNCHANGED <<newsVars, rfVars, lpVars, poVars, rlVars>>
    \/ NextRemoveFromWishlist(BOOLEAN) /\ UNCHANGED <<newsVars, rfVars, lpVars, poVars, rlVars>>
    \/ NextWishlistPanelTimeout /\ UNCHANGED <<newsVars, rfVars, lpVars, poVars, rlVars>>

SpecWishlistFaulty == Init /\ [][NextWishlistFaulty]_vars

\* Filling wishlists, setting the visibility and /wishlist show; any store
\* call of the visibility and show commands may fail
NextWishlistShow ==
    \/ NextWishlistButton({TRUE}) /\ UNCHANGED <<newsVars, rfVars, lpVars, poVars, rlVars>>
    \/ NextAddToWishlist({TRUE}) /\ UNCHANGED <<newsVars, rfVars, lpVars, poVars, rlVars>>
    \/ NextAddToWishlistInsert({TRUE}) /\ UNCHANGED <<newsVars, rfVars, lpVars, poVars, rlVars>>
    \/ NextVisibility(BOOLEAN) /\ UNCHANGED <<newsVars, rfVars, lpVars, poVars, rlVars>>
    \/ NextShow(BOOLEAN) /\ UNCHANGED <<newsVars, rfVars, lpVars, poVars, rlVars>>

SpecWishlistShow == Init /\ [][NextWishlistShow]_vars

----------------------------------------------------------------------------
(* WishlistManager.refresh_all_wishlist_dates                               *)

\* batch_size: 200 in the code, scaled down so that three ids make one
\* batch and four ids make two
batch_size == 3

RefreshGameIds == {7, 8, 9, 10}
NewDates == {500}

\* What the lookup says of one id of the batch: a record with a
\* first_release_date, a record without one, no record
LookupKinds == {"date", "nodate", "absent"}

RefreshGame(id) ==
    [id |-> id, name |-> "Game", slug |-> "game",
     cover_url |-> "//img.test/t_thumb/c.jpg", first_release_date |-> 100,
     release_dates |-> <<>>, platforms |-> <<"PC", "PS5">>]

\* The rows of user_id for the game ids of gids, in the order of ids
RECURSIVE RowsFor(_, _, _)
RowsFor(user_id, ids, gids) ==
    IF ids = <<>> THEN <<>>
    ELSE IF Head(ids) \in gids
         THEN <<WishlistRow(user_id, RefreshGame(Head(ids)), 0)>>
                 \o RowsFor(user_id, Tail(ids), gids)
         ELSE RowsFor(user_id, Tail(ids), gids)

\* The wishlists tables a refresh starts from: data/wishlist.db as earlier
\* runs of the bot left it. User 1 holds any of the games 7 to 10 and
\* user 2 holds game 7 or nothing.
RefreshTables ==
    { RowsFor(1, <<7, 8, 9, 10>>, g1) \o RowsFor(2, <<7>>, g2) :
        g1 \in SUBSET RefreshGameIds, g2 \in SUBSET {7} }

\* SELECT DISTINCT game_id, slug FROM wishlists, in the order of the first
\* row of each pair
RECURSIVE DistinctGames(_, _)
DistinctGames(tbl, seen) ==
    IF tbl = <<>> THEN <<>>
    ELSE LET g == [game_id |-> Head(tbl).game_id, slug |-> Head(tbl).slug]
         IN  IF g \in seen THEN DistinctGames(Tail(tbl), seen)
             ELSE <<g>> \o DistinctGames(Tail(tbl), seen \cup {g})

\* ids = [str(g["game_id"]) for g in games if g.get("game_id")]
RefreshIds(games) ==
    LET kept == SelectSeq(games, LAMBDA g : ~NoGameId(g.game_id))
    IN  [i \in 1..Len(kept) |-> kept[i].game_id]

\* An upsert in place of the UPDATE: a game without a row gets one
UpsertReleaseDate(tbl, game_id, new_ts) ==
    IF \E i \in 1..Len(tbl) : tbl[i].game_id = game_id
    THEN [i \in 1..Len(tbl) |->
             IF tbl[i].game_id = game_id
             THEN [tbl[i] EXCEPT !.first_release_date = new_ts] ELSE tbl[i]]
    ELSE Append(tbl, [WishlistRow(1, RefreshGame(game_id), 0)
                         EXCEPT !.first_release_date = new_ts])

\* UPDATE wishlists SET first_release_date = ? WHERE game_id = ?
UpdateReleaseDate(tbl, game_id, new_ts) ==
    [i \in 1..Len(tbl) |->
        IF tbl[i].game_id = game_id
        THEN [tbl[i] EXCEPT !.first_release_date = new_ts] ELSE tbl[i]]

\* One id counted under counter c for a lookup answer of kind k
Count(acc, c, k) ==
    [acc EXCEPT ![c] = @ + 1, !.kinds = Append(@, k), !.counted = Append(@, c)]

\* An _update_game that counts an id whose rows hold the date already as
\* unchanged
_update_game_comparing(acc, game_id, new_ts, k, dbOk) ==
    IF new_ts = NoTs THEN Count(acc, "unchanged", k)
    ELSE IF ~dbOk THEN Count(acc, "failed", k)
    ELSE IF \A i \in 1..Len(acc.tbl) :
                acc.tbl[i].game_id = game_id
                    => acc.tbl[i].first_release_date = new_ts
         THEN Count(acc, "unchanged", k)
         ELSE Count([acc EXCEPT !.tbl = UpdateReleaseDate(@, game_id, new_ts)],
                    "updated", k)

\* _update_game: acc carries the table and the counters. dbOk: the UPDATE
\* did not raise.
_update_game(acc, game_id, new_ts, k, dbOk) ==
    IF new_ts = NoTs THEN Count(acc, "unchanged", k)
    ELSE IF ~dbOk THEN Count(acc, "failed", k)
    ELSE Count([acc EXCEPT !.tbl = UpdateReleaseDate(@, game_id, new_ts)],
               "updated", k)

\* The body of "for gid in batch" for one id
ApplyLookup(acc, gid, kind, new_ts, dbOk) ==
    IF kind = "date" /\ new_ts # NoTs /\ new_ts # 0
    THEN _update_game(acc, gid, new_ts, kind, dbOk)
    ELSE Count(acc, "missing", kind)

\* "for gid in batch" from position k on
RECURSIVE ApplyBatch(_, _, _, _, _, _)
ApplyBatch(acc, batch, resp, new_ts, dbOk, k) ==
    IF k > Len(batch) THEN acc
    ELSE ApplyBatch(ApplyLookup(acc, batch[k], resp[k], new_ts, dbOk[k]),
                    batch, resp, new_ts, dbOk, k + 1)

\* except Exception: failed += len(batch), one id after the other
RECURSIVE FailBatch(_, _, _)
FailBatch(acc, batch, k) ==
    IF k > Len(batch) THEN acc
    ELSE FailBatch(Count(acc, "failed", "raised"), batch, k + 1)

\* The counters of a refresh as the summary dict
Summary(r) ==
    [updated |-> r.updated, unchanged |-> r.unchanged,
     missing |-> r.missing, failed |-> r.failed]

\* ids[i:i+batch_size], with next = i + 1
Batch(ids, next) ==
    SubSeq(ids, next, IF next + batch_size - 1 <= Len(ids)
                      THEN next + batch_size - 1 ELSE Len(ids))

\* A loop that gives up at the first batch whose lookup raises
AfterBatchGivingUp(ids, next, lookupOk) ==
    IF lookupOk THEN next + batch_size ELSE Len(ids) + 1

\* range(0, len(ids), batch_size): the start of the batch after this one,
\* whether its lookup raised (continue) or not
AfterBatch(ids, next, lookupOk) == next + batch_size

\* refresh_all_wishlist_dates up to the loop over the batches. dbOk: the
\* SELECT DISTINCT did not raise; igdb: bot.get_cog('IGDB') returned the cog
RefreshStart(igdb, dbOk) ==
    LET games == DistinctGames(wishlists, {})
        fresh == [NoRefresh EXCEPT !.igdb = igdb]
    IN  /\ refresh.pc \in {"idle", "done"}
        /\ ~dbOk => igdb
        /\ faults' = IF dbOk THEN faults ELSE 1
        /\ refresh' =
              IF ~dbOk THEN [fresh EXCEPT !.pc = "done"]
              ELSE IF ~igdb
                   THEN [fresh EXCEPT !.pc = "done", !.missing = Len(games)]
                   ELSE [fresh EXCEPT !.pc = "running", !.ids = RefreshIds(games)]
        /\ last_refresh' = IF ~dbOk THEN Summary(fresh) ELSE last_refresh
        /\ UNCHANGED <<wishlists, user_settings, wlPanels, wlCalls, granted,
                       wlast, now>>

\* One turn of the loop over the batches. lookupOk: _fetch_games_from_api
\* did not raise; resp[k]: what it says of the k-th id of the batch;
\* new_ts: the date it gives; dbOk[k]: the UPDATE for that id did not raise
RefreshBatch(lookupOk, resp, new_ts, dbOk) ==
    LET batch == Batch(refresh.ids, refresh.next)
        acc == [tbl |-> wishlists, updated |-> refresh.updated,
                unchanged |-> refresh.unchanged, missing |-> refresh.missing,
                failed |-> refresh.failed, kinds |-> refresh.kinds,
                counted |-> refresh.counted]
        res == IF lookupOk THEN ApplyBatch(acc, batch, resp, new_ts, dbOk, 1)
               ELSE FailBatch(acc, batch, 1)
    IN  /\ refresh.pc = "running"
        /\ refresh.next <= Len(refresh.ids)
        /\ DOMAIN resp = 1..Len(batch)
        /\ DOMAIN dbOk = 1..Len(batch)
        /\ \A k \in 1..Len(batch) : ~dbOk[k] => lookupOk /\ resp[k] = "date"
        /\ ~lookupOk => \A k \in 1..Len(batch) : resp[k] = "absent"
        /\ faults' = IF lookupOk /\ \A k \in 1..Len(batch) : dbOk[k]
                     THEN faults ELSE 1
        /\ wishlists' = res.tbl
        /\ refresh' = [refresh EXCEPT
                          !.next = AfterBatch(refresh.ids, refresh.next, lookupOk),
                          !.updated = res.updated, !.unchanged = res.unchanged,
                          !.missing = res.missing, !.failed = res.failed,
                          !.kinds = res.kinds, !.counted = res.counted]
        /\ UNCHANGED <<last_refresh, user_settings, wlPanels, wlCalls, granted,
                       wlast, now>>

\* The loop is over: the summary is stored and returned
RefreshReturn ==
    /\ refresh.pc = "running"
    /\ refresh.next > Len(refresh.ids)
    /\ refresh' = [refresh EXCEPT !.pc = "done"]
    /\ last_refresh' = Summary(refresh)
    /\ UNCHANGED <<wishlists, user_settings, wlPanels, wlCalls, granted,
                   wlast, now, faults>>

----------------------------------------------------------------------------
(* Specification: the bulk refresh of release dates                         *)

\* data/wishlist.db holds what earlier runs left in it
InitRefresh ==
    /\ wishlists \in RefreshTables
    /\ granted = [k \in Users \X RealGameIds |->
                     IF is_in_wishlist(wishlists, k[1], k[2]) THEN 1 ELSE 0]
    /\ InitOther

NextRefreshStart ==
    \E igdb, dbOk \in BOOLEAN : RefreshStart(igdb, dbOk)

NextRefreshBatch ==
    \E lookupOk \in BOOLEAN, new_ts \in NewDates, n \in 1..batch_size :
        \E resp \in [1..n -> LookupKinds], dbOk \in [1..n -> BOOLEAN] :
            RefreshBatch(lookupOk, resp, new_ts, dbOk)

\* _daily_refresh_loop and /wishlist refresh start the refresh again and
\* again; a lookup and an UPDATE may fail
NextRefresh ==
    \/ NextRefreshStart /\ UNCHANGED <<newsVars, lpVars, poVars, rlVars>>
    \/ NextRefreshBatch /\ UNCHANGED <<newsVars, lpVars, poVars, rlVars>>
    \/ RefreshReturn /\ UNCHANGED <<newsVars, lpVars, poVars, rlVars>>

SpecRefresh == InitRefresh /\ [][NextRefresh]_vars

----------------------------------------------------------------------------
(* Specification: the bulk refresh while users change their data            *)

\* The slug the metadata source gave for game 7 when a user added it: the
\* source renames slugs, so two users may hold the same game under two
\* slugs
SharedSlugs == {"game", "game--1"}

SharedGame(slug) == [RefreshGame(7) EXCEPT !.slug = slug]

\* User 1 holds game 7 or the games 7 and 8; user 2 holds game 7, under
\* either slug, or nothing
SharedTables ==
    { RowsFor(1, <<7, 8, 9, 10>>, g1) \o r2 :
        g1 \in {{7}, {7, 8}},
        r2 \in {<<>>} \cup { <<WishlistRow(2, SharedGame(slug), 0)>> :
                                slug \in SharedSlugs } }

InitRefreshShared ==
    /\ wishlists \in SharedTables
    /\ granted = [k \in Users \X RealGameIds |->
                     IF is_in_wishlist(wishlists, k[1], k[2]) THEN 1 ELSE 0]
    /\ InitOther

\* A user removes a game while the refresh is between two awaits
RemoveDuringRefresh(user_id, game_id) ==
    /\ refresh.pc = "running"
    /\ is_in_wishlist(wishlists, user_id, game_id)
    /\ wishlists' = remove_from_wishlist(wishlists, user_id, game_id, TRUE)[1]
    /\ UNCHANGED <<user_settings, wlPanels, wlCalls, granted, wlast, rfVars,
                   now, faults>>

\* A user sets the visibility of the wishlist while the refresh runs
SetVisibilityDuringRefresh(user_id, public) ==
    /\ refresh.pc = "running"
    /\ user_settings' = set_user_visibility(user_settings, user_id, public, TRUE)[1]
    /\ UNCHANGED <<wishlists, wlPanels, wlCalls, granted, wlast, rfVars,
                   now, faults>>

\* The refresh whose SELECT DISTINCT returned
NextRefreshStartReading == \E igdb \in BOOLEAN : RefreshStart(igdb, TRUE)

NextRemoveDuringRefresh ==
    \E user_id \in Users, game_id \in RefreshGameIds :
        RemoveDuringRefresh(user_id, game_id)

NextSetVisibilityDuringRefresh ==
    \E public \in BOOLEAN : SetVisibilityDuringRefresh(2, public)

NextRefreshShared ==
    \/ NextRefreshStartReading /\ UNCHANGED <<newsVars, lpVars, poVars, rlVars>>
    \/ NextRefreshBatch /\ UNCHANGED <<newsVars, lpVars, poVars, rlVars>>
    \/ RefreshReturn /\ UNCHANGED <<newsVars, lpVars, poVars, rlVars>>
    \/ NextRemoveDuringRefresh /\ UNCHANGED <<newsVars, lpVars, poVars, rlVars>>
    \/ NextSetVisibilityDuringRefresh /\ UNCHANGED <<newsVars, lpVars, poVars, rlVars>>

SpecRefreshShared == InitRefreshShared /\ [][NextRefreshShared]_vars

----------------------------------------------------------------------------
(* WishlistListPanelView (ui_components.py), BookmarksListPanelView         *)
(* (bookmarks.py)                                                           *)

\* The page sizes handle_show (10) and handle_bookmarks (6) pass
WishlistPageSize == 10
BookmarksPageSize == 6
PageSizes == {1, BookmarksPageSize, WishlistPageSize}

\* first_release_date of the rows of a snapshot, row after row
DatePatterns == {<<NoTs, 100, 50>>, <<50, NoTs, 100>>, <<100, 0, 100>>}

\* A snapshot of n wishlist rows of a user, as get_user_wishlist returns it
WishlistSnapshot(n, dates) ==
    [i \in 1..n |->
        [WishlistRow(1, RefreshGame(i), 0)
            EXCEPT !.first_release_date = dates[((i - 1) % Len(dates)) + 1]]]

\* A snapshot of n bookmarks of a user, as get_user_bookmarks returns it
BookmarkSnapshot(n) ==
    [i \in 1..n |->
        [entry_id |-> "miniflux:" \o ToString(i), title |-> "t1",
         url |-> "https://x.test/" \o ToString(i), summary |-> None,
         content |-> None, image_url |-> None, added_at |-> n - i,
         published_at |-> NoTs]]

\* (a - 1) // b of Python for a >= 0, b >= 1: floor division, -1 for a = 0
FloorDivPred(a, b) == IF a = 0 THEN -1 ELSE (a - 1) \div b

\* max(0, (len(items) - 1) // page_size)
MaxPageOf(items, page_size) ==
    IF FloorDivPred(Len(items), page_size) > 0
    THEN FloorDivPred(Len(items), page_size) ELSE 0

\* A _release_ts that sorts rows without a date before every date
PanelReleaseTsMissingFirst(g) ==
    IF g.first_release_date # NoTs /\ g.first_release_date # 0
    THEN g.first_release_date ELSE -1

\* WishlistListPanelView._release_ts
PanelReleaseTs(g) ==
    IF g.first_release_date # NoTs /\ g.first_release_date # 0
    THEN g.first_release_date ELSE NoReleaseTs

\* sorted(games, key=self._release_ts, reverse=True): stable
RECURSIVE PanelSortDesc(_)
PanelSortDesc(rows) ==
    IF rows = <<>> THEN <<>>
    ELSE LET rest == PanelSortDesc(Tail(rows))
             h == Head(rows)
             k == Cardinality({ i \in 1..Len(rest) :
                                   PanelReleaseTs(rest[i]) > PanelReleaseTs(h) })
         IN  SubSeq(rest, 1, k) \o <<h>> \o SubSeq(rest, k + 1, Len(rest))

\* sorted(games, key=self._release_ts, reverse=False): stable
RECURSIVE PanelSortAsc(_)
PanelSortAsc(rows) ==
    IF rows = <<>> THEN <<>>
    ELSE LET rest == PanelSortAsc(Tail(rows))
             h == Head(rows)
             k == Cardinality({ i \in 1..Len(rest) :
                                   PanelReleaseTs(rest[i]) < PanelReleaseTs(h) })
         IN  SubSeq(rest, 1, k) \o <<h>> \o SubSeq(rest, k + 1, Len(rest))

\* A _sort_games that reads the wishlist of user 1 again
_sort_games_requerying(panel) ==
    LET games == IF panel.sort_descending
                 THEN PanelSortDesc(get_user_wishlist(wishlists, 1))
                 ELSE PanelSortAsc(get_user_wishlist(wishlists, 1))
    IN  [panel EXCEPT !.games = games,
                      !.max_page = MaxPageOf(games, panel.page_size)]

\* WishlistListPanelView._sort_games, called by _build_page_buttons
_sort_games(panel) ==
    LET games == IF panel.sort_descending
                 THEN PanelSortDesc(panel.original_games)
                 ELSE PanelSortAsc(panel.original_games)
    IN  [panel EXCEPT !.games = games,
                      !.max_page = MaxPageOf(games, panel.page_size)]

\* _build_page_buttons / _build_page_components: only the wishlist panel
\* sorts
BuildPage(panel) ==
    IF panel.kind = "wishlist" THEN _sort_games(panel) ELSE panel

\* WishlistListPanelView.__init__
WishlistListPanelView(games, page_size) ==
    LET size == IF page_size >= 1 THEN page_size ELSE 1
    IN  BuildPage([kind |-> "wishlist", games |-> games,
                   original_games |-> games, page_size |-> size,
                   current_page |-> 0, max_page |-> MaxPageOf(games, size),
                   sort_descending |-> TRUE, op |-> "open", from |-> 0])

\* BookmarksListPanelView.__init__
BookmarksListPanelView(bms, page_size) ==
    LET size == IF page_size >= 1 THEN page_size ELSE 1
    IN  BuildPage([kind |-> "bookmarks", games |-> bms,
                   original_games |-> bms, page_size |-> size,
                   current_page |-> 0, max_page |-> MaxPageOf(bms, size),
                   sort_descending |-> TRUE, op |-> "open", from |-> 0])

\* handle_show opens the panel over the sorted wishlist it read; an empty
\* wishlist is answered without a panel
OpenWishlistListPanel(user_wishlist, page_size) ==
    /\ listPanel.kind = "none"
    /\ user_wishlist # <<>>
    /\ listPanel' = WishlistListPanelView(SortByReleaseDesc(user_wishlist), page_size)

\* handle_bookmarks opens the panel over the bookmarks it read; no bookmark
\* is answered without a panel
OpenBookmarksListPanel(bms, page_size) ==
    /\ listPanel.kind = "none"
    /\ bms # <<>>
    /\ listPanel' = BookmarksListPanelView(bms, page_size)

\* A previous button that goes back whatever the page
PreviousPageUnguarded(panel) ==
    [BuildPage([panel EXCEPT !.current_page = @ - 1])
        EXCEPT !.op = "prev", !.from = panel.current_page]

\* previous_button / _prev
PreviousPage(panel) ==
    IF panel.current_page > 0
    THEN [BuildPage([panel EXCEPT !.current_page = @ - 1])
             EXCEPT !.op = "prev", !.from = panel.current_page]
    ELSE [panel EXCEPT !.op = "prev", !.from = panel.current_page]

\* next_button / _next
NextPage(panel) ==
    IF panel.current_page < panel.max_page
    THEN [BuildPage([panel EXCEPT !.current_page = @ + 1])
             EXCEPT !.op = "next", !.from = panel.current_page]
    ELSE [panel EXCEPT !.op = "next", !.from = panel.current_page]

\* A sort button that goes back to the first page
ToggleSortFromFirstPage(panel) ==
    [BuildPage([panel EXCEPT !.sort_descending = ~@, !.current_page = 0])
        EXCEPT !.op = "toggle_sort", !.from = panel.current_page]

\* sort_button
ToggleSort(panel) ==
    [BuildPage([panel EXCEPT !.sort_descending = ~@])
        EXCEPT !.op = "toggle_sort", !.from = panel.current_page]

previous_button ==
    /\ listPanel.kind # "none"
    /\ listPanel' = PreviousPage(listPanel)

next_button ==
    /\ listPanel.kind # "none"
    /\ listPanel' = NextPage(listPanel)

sort_button ==
    /\ listPanel.kind = "wishlist"
    /\ listPanel' = ToggleSort(listPanel)

\* close_button / _close, and the timeout of the view
close_button ==
    /\ listPanel.kind # "none"
    /\ listPanel' = NoPanel

----------------------------------------------------------------------------
(* Specification: one list panel over a snapshot                            *)

NextOpenWishlistList ==
    \E n \in 0..MaxItems, dates \in DatePatterns, page_size \in PageSizes :
        OpenWishlistListPanel(WishlistSnapshot(n, dates), page_size)

NextOpenBookmarksList ==
    \E n \in 0..MaxItems, page_size \in PageSizes :
        OpenBookmarksListPanel(BookmarkSnapshot(n), page_size)

NextListPanel ==
    \/ NextOpenWishlistList /\ UNCHANGED <<newsVars, wlVars, rfVars, poVars, rlVars, screen, now, faults>>
    \/ NextOpenBookmarksList /\ UNCHANGED <<newsVars, wlVars, rfVars, poVars, rlVars, screen, now, faults>>
    \/ previous_button /\ UNCHANGED <<newsVars, wlVars, rfVars, poVars, rlVars, screen, now, faults>>
    \/ next_button /\ UNCHANGED <<newsVars, wlVars, rfVars, poVars, rlVars, screen, now, faults>>
    \/ sort_button /\ UNCHANGED <<newsVars, wlVars, rfVars, poVars, rlVars, screen, now, faults>>
    \/ close_button /\ UNCHANGED <<newsVars, wlVars, rfVars, poVars, rlVars, screen, now, faults>>

SpecListPanel == Init /\ [][NextListPanel]_vars

----------------------------------------------------------------------------
(* run_miniflux_loop, DiscordPoster.process_entries, MinifluxClient         *)

\* Config: 5 entries a batch in the code, scaled so that three unread items
\* exceed one batch
max_entries_per_batch == 2
fetch_interval_with_entries == 30
fetch_interval_no_entries == 60

\* The sleep of the except clause of the loop
RetrySleep == 60

\* The first n elements of a sequence
Take(seq, n) == SubSeq(seq, 1, IF Len(seq) < n THEN Len(seq) ELSE n)

\* A fetch whose limit cuts the newest items before the unread ones are
\* picked among them
fetch_newest_then_unread(up) ==
    LET IsSeen(id) == up[id] # "unseen"
        IsUnread(id) == up[id] = "unread"
        ids == SelectSeq(Take(SelectSeq(<<2, 1, 0>>, IsSeen), max_entries_per_batch),
                         IsUnread)
    IN  [i \in 1..Len(ids) |-> PollItem(ids[i])]

\* A fetch without the status filter: every item the server has
fetch_entries_any_status(up) ==
    LET IsSeen(id) == up[id] # "unseen"
    IN  Take([i \in 1..Len(SelectSeq(<<2, 1, 0>>, IsSeen)) |->
                 PollItem(SelectSeq(<<2, 1, 0>>, IsSeen)[i])],
             max_entries_per_batch)

\* GET /v1/entries?status=unread&limit=...&order=published_at&direction=desc:
\* the unread items, the newest (highest id) first
fetch_unread_entries(up) ==
    LET IsUnread(id) == up[id] = "unread"
    IN  Take([i \in 1..Len(SelectSeq(<<2, 1, 0>>, IsUnread)) |->
                 PollItem(SelectSeq(<<2, 1, 0>>, IsUnread)[i])],
             max_entries_per_batch)

\* PUT /v1/entries {"entry_ids": ..., "status": "read"}
MarkRead(up, ids) ==
    [id \in PollIds |->
        IF \E i \in 1..Len(ids) : ids[i] = id THEN "read" ELSE up[id]]

\* MinifluxClient.mark_as_read: <<upstream, calls, return value>>; an empty
\* list returns True without a request, a status other than 204 or a raise
\* returns False
mark_as_read(up, calls, entry_ids, markOk) ==
    IF entry_ids = <<>> THEN <<up, calls, TRUE>>
    ELSE IF markOk
         THEN <<MarkRead(up, entry_ids),
                Append(calls, [ids |-> entry_ids, ok |-> TRUE]), TRUE>>
         ELSE <<up, Append(calls, [ids |-> entry_ids, ok |-> FALSE]), FALSE>>

\* A collection of posted ids that takes every attempted id
AppendPostedAlways(posted, id, success) == Append(posted, id)

\* if success: posted_entry_ids.append(entry.get('id'))
AppendPosted(posted, id, success) ==
    IF success THEN Append(posted, id) ELSE posted

\* A loop over the batch that gives up at the first item that failed
NextEntryStoppingOnFailure(next, n, success) ==
    IF success THEN next + 1 ELSE n + 1

\* for entry in entries: the item handled after the one at index next
NextEntry(next, n, success) == next + 1

\* A loop that ends when the fetch raises
AfterLoopErrorStopping(p) ==
    [p EXCEPT !.pc = "stopped", !.failure = "fetch"]

\* except Exception of run_miniflux_loop: log, then asyncio.sleep(60)
AfterLoopError(p) ==
    [p EXCEPT !.pc = "sleep", !.failure = "fetch", !.sleep_time = RetrySleep]

\* The sleep interval run_miniflux_loop picks once process_entries returned
SleepTime(entry_count_before) ==
    IF entry_count_before > 0 THEN fetch_interval_with_entries
    ELSE fetch_interval_no_entries

\* process_entries returned: the loop picks its interval and sleeps
AfterProcess(p) ==
    [p EXCEPT !.pc = "sleep", !.sleep_time = SleepTime(p.entry_count_before)]

\* run_miniflux_loop: entries_before = await fetch_unread_entries()
LoopFetch(fetchOk) ==
    /\ poller.pc = "fetch"
    /\ poller' = IF fetchOk
                 THEN [NoPoll EXCEPT
                          !.pc = "process",
                          !.fetches = 1,
                          !.again = poller.again,
                          !.entry_count_before = Len(fetch_unread_entries(upstream))]
                 ELSE AfterLoopError([NoPoll EXCEPT !.fetches = 1,
                                                    !.again = poller.again])
    /\ UNCHANGED <<upstream, news_entries, channel>>

\* process_entries: its own fetch; a raise is caught by its except clauses,
\* an empty list returns
ProcessFetch(fetchOk) ==
    /\ poller.pc = "process"
    /\ poller' =
          IF ~fetchOk
          THEN AfterProcess([poller EXCEPT !.failure = "process_fetch",
                                           !.fetches = @ + 1])
          ELSE IF fetch_unread_entries(upstream) = <<>>
               THEN AfterProcess([poller EXCEPT !.fetches = @ + 1])
          ELSE [poller EXCEPT !.pc = "post",
                              !.fetches = @ + 1,
                              !.entries = fetch_unread_entries(upstream)]
    /\ UNCHANGED <<upstream, news_entries, channel>>

\* A post_entry that returns False when the upsert failed
post_entry_calls_needing_row(channelFound, processOk, dbOk, sendOk) ==
    IF ~channelFound \/ ~processOk THEN <<>>
    ELSE IF ~dbOk THEN <<[op |-> "upsert", ok |-> FALSE]>>
    ELSE <<[op |-> "upsert", ok |-> TRUE], [op |-> "send", ok |-> sendOk]>>

\* post_entry: the calls it makes on the Entry Store and on the channel, in
\* order. No channel returns False at once and a raise of process_entry
\* goes to the outer except; the upsert runs inside its own try blocks, so
\* channel.send follows it whatever it did
post_entry_calls(channelFound, processOk, dbOk, sendOk) ==
    IF ~channelFound \/ ~processOk THEN <<>>
    ELSE <<[op |-> "upsert", ok |-> dbOk], [op |-> "send", ok |-> sendOk]>>

\* The call op was made and succeeded
Succeeded(calls, op) ==
    \E i \in 1..Len(calls) : calls[i].op = op /\ calls[i].ok

\* process_entries: post_entry of the item at index next, the append to
\* posted_entry_ids and the rate-limiting sleep
ProcessPost(channelFound, processOk, desc, image, dbOk, sendOk) ==
    /\ poller.pc = "post"
    /\ LET entry == poller.entries[poller.next]
           calls == post_entry_calls(channelFound, processOk, dbOk, sendOk)
           persisted == Succeeded(calls, "upsert")
           success == Succeeded(calls, "send")
           next == NextEntry(poller.next, Len(poller.entries), success)
       IN  /\ news_entries' =
                 IF persisted
                 THEN InsertOrReplaceNews(news_entries,
                                          PosterRow(entry, desc, image, now + 1))
                 ELSE news_entries
           /\ channel' = IF success THEN channel \cup {entry} ELSE channel
           /\ poller' =
                 [poller EXCEPT
                     !.next = next,
                     !.pc = IF next > Len(poller.entries) THEN "mark" ELSE "post",
                     !.results = Append(@, [id |-> entry.id,
                                            calls |-> calls,
                                            persisted |-> persisted,
                                            success |-> success]),
                     !.posted_entry_ids = AppendPosted(@, entry.id, success),
                     !.again = IF /\ success
                                  /\ entry \in channel
                                  /\ HasEntry(news_entries, post_entry_id(entry))
                               THEN @ \cup {entry.id} ELSE @,
                     !.failure = IF persisted /\ success THEN @
                                 ELSE IF success THEN "persist" ELSE "post"]
    /\ UNCHANGED upstream

\* process_entries: if posted_entry_ids: await mark_as_read(posted_entry_ids)
ProcessMark(markOk) ==
    /\ poller.pc = "mark"
    /\ LET r == IF poller.posted_entry_ids # <<>>
                THEN mark_as_read(upstream, poller.marks,
                                  poller.posted_entry_ids, markOk)
                ELSE <<upstream, poller.marks, TRUE>>
       IN  /\ upstream' = r[1]
           /\ poller' = AfterProcess([poller EXCEPT
                                         !.marks = r[2],
                                         !.failure = IF r[3] THEN @ ELSE "mark"])
    /\ UNCHANGED <<news_entries, channel>>

\* await asyncio.sleep(...) returns and the while loop starts over
LoopWake ==
    /\ poller.pc = "sleep"
    /\ poller' = [poller EXCEPT !.pc = "fetch"]
    /\ UNCHANGED <<upstream, news_entries, channel>>

\* The feed server receives a new item
Arrive(id) ==
    /\ upstream[id] = "unseen"
    /\ upstream' = [upstream EXCEPT ![id] = "unread"]
    /\ UNCHANGED <<poller, news_entries, channel>>

----------------------------------------------------------------------------
(* Specifications: the poller and the feed server                           *)

NextLoopFetch == \E fetchOk \in BOOLEAN : LoopFetch(fetchOk)

NextProcessFetch == \E fetchOk \in BOOLEAN : ProcessFetch(fetchOk)

NextProcessPost ==
    \E channelFound, processOk, dbOk, sendOk \in BOOLEAN,
       desc \in Descriptions, image \in Images :
        /\ ~channelFound => processOk /\ dbOk /\ sendOk
        /\ ~processOk => dbOk /\ sendOk
        /\ ProcessPost(channelFound, processOk, desc, image, dbOk, sendOk)

NextProcessMark == \E markOk \in BOOLEAN : ProcessMark(markOk)

NextArrive == \E id \in PollIds : Arrive(id)

PollerFrame ==
    UNCHANGED <<bookmarks, bmPanels, last, wlVars, rfVars, lpVars, rlVars,
                now, faults>>

\* The steps of the poller task
PollerStep ==
    \/ NextLoopFetch /\ PollerFrame
    \/ NextProcessFetch /\ PollerFrame
    \/ NextProcessPost /\ PollerFrame
    \/ NextProcessMark /\ PollerFrame
    \/ LoopWake /\ PollerFrame

NextPoller ==
    \/ NextLoopFetch /\ PollerFrame
    \/ NextProcessFetch /\ PollerFrame
    \/ NextProcessPost /\ PollerFrame
    \/ NextProcessMark /\ PollerFrame
    \/ LoopWake /\ PollerFrame
    \/ NextArrive /\ PollerFrame

SpecPoller == Init /\ [][NextPoller]_vars

\* The event loop resumes the poller task whenever its await completed:
\* a step of the poller that stays possible is eventually taken
SpecPollerFair == Init /\ [][NextPoller]_vars /\ WF_vars(PollerStep)

\* post_entry of an item without description and image whose row is
\* stored: it returns what channel.send made of it
NextProcessPostPlain ==
    \E sendOk \in BOOLEAN : ProcessPost(TRUE, TRUE, None, None, TRUE, sendOk)

PollerStepLive ==
    \/ NextLoopFetch /\ PollerFrame
    \/ NextProcessFetch /\ PollerFrame
    \/ NextProcessPostPlain /\ PollerFrame
    \/ NextProcessMark /\ PollerFrame
    \/ LoopWake /\ PollerFrame

NextPollerLive ==
    \/ NextLoopFetch /\ PollerFrame
    \/ NextProcessFetch /\ PollerFrame
    \/ NextProcessPostPlain /\ PollerFrame
    \/ NextProcessMark /\ PollerFrame
    \/ LoopWake /\ PollerFrame
    \/ NextArrive /\ PollerFrame

\* post_entry of the item id, the channel found, the embed built and the
\* send accepted
PostSucceeds(id) ==
    /\ poller.pc = "post"
    /\ poller.entries[poller.next].id = id
    /\ ProcessPost(TRUE, TRUE, None, None, TRUE, TRUE)
    /\ PollerFrame

\* mark_as_read of a list that holds id, answered 204
MarkSucceeds(id) ==
    /\ poller.pc = "mark"
    /\ \E i \in 1..Len(poller.posted_entry_ids) : poller.posted_entry_ids[i] = id
    /\ ProcessMark(TRUE)
    /\ PollerFrame

\* The poller task is resumed whenever its await completed, and the feed
\* server and the channel do not fail for ever: a fetch, the post of an
\* item and the mark-read of an item that are tried again and again
\* eventually succeed
SpecPollerLive ==
    /\ Init
    /\ [][NextPollerLive]_vars
    /\ WF_vars(PollerStepLive)
    /\ SF_vars(LoopFetch(TRUE) /\ PollerFrame)
    /\ SF_vars(ProcessFetch(TRUE) /\ PollerFrame)
    /\ \A id \in PollIds : SF_vars(PostSucceeds(id))
    /\ \A id \in PollIds : SF_vars(MarkSucceeds(id))

----------------------------------------------------------------------------
(* WishlistManager.cog_load, cog_unload, _daily_refresh_loop                *)

\* Tasks created, iterations a task starts, suspension points of one
\* iteration, manual refreshes in flight
MaxTasks == 2
MaxIterations == 2
MaxAwaits == 2
MaxManual == 1

\* asyncio.create_task(self._daily_refresh_loop()): scheduled, not yet run
NewTask ==
    [pc |-> "created", must_cancel |-> FALSE, left |-> 0, iterations |-> 0,
     raised |-> 0, terminated |-> "no"]

\* The task has not returned
Running(t) == t.pc # "done"

\* Task.cancel(): the CancelledError is thrown into the coroutine when the
\* task next runs
Cancel(t) == [t EXCEPT !.must_cancel = TRUE]

\* A cog_unload that leaves the task alone
CancelIgnored(t) == t

\* cog_unload: if self._refresh_task and not self._refresh_task.done():
\*                 self._refresh_task.cancel()
CancelRefreshTask(t) == IF Running(t) THEN Cancel(t) ELSE t

\* A loop whose except clauses take the cancellation for an error of the
\* iteration: log it and sleep
ObserveCancelSwallowing(t) ==
    [t EXCEPT !.pc = "sleeping", !.must_cancel = FALSE, !.left = 0]

\* except asyncio.CancelledError: raise, then the outer except
\* asyncio.CancelledError: the coroutine returns
ObserveCancel(t) ==
    [t EXCEPT !.pc = "done", !.must_cancel = FALSE, !.left = 0,
              !.terminated = "cancelled"]

\* while True: try: await self.refresh_all_wishlist_dates()
StartIteration(t) ==
    [t EXCEPT !.pc = "iterating", !.left = MaxAwaits, !.iterations = @ + 1]

\* An await of the iteration completed or raised; an exception is caught by
\* refresh_all_wishlist_dates or by except Exception of the loop, and the
\* loop goes on to asyncio.sleep(60 * 60 * 24)
AfterAwait(t, ok) ==
    IF ok /\ t.left > 1 THEN [t EXCEPT !.left = @ - 1]
    ELSE [t EXCEPT !.pc = "sleeping", !.left = 0,
                   !.raised = IF ok THEN @ ELSE t.iterations]

\* cog_load: await self._init_db(), then create the task. Every task
\* cancelled earlier has run by then: cancel() puts it on the ready queue
\* of the event loop, which is served in order
cog_load ==
    /\ ~refresher.loaded
    /\ Len(refresher.tasks) < MaxTasks
    /\ \A i \in 1..Len(refresher.tasks) : ~refresher.tasks[i].must_cancel
    /\ refresher' = [refresher EXCEPT
                        !.loaded = TRUE,
                        !.tasks = Append(@, NewTask),
                        !._refresh_task = Len(refresher.tasks) + 1]

cog_unload ==
    /\ refresher.loaded
    /\ refresher' =
          [refresher EXCEPT
              !.loaded = FALSE,
              !.tasks = IF refresher._refresh_task = 0 THEN @
                        ELSE [@ EXCEPT ![refresher._refresh_task] =
                                           CancelRefreshTask(@)]]

\* The event loop runs task i up to its next suspension point
TaskStep(i, ok) ==
    /\ i \in 1..Len(refresher.tasks)
    /\ LET t == refresher.tasks[i]
       IN  /\ Running(t)
           /\ t.pc \in {"created", "sleeping"} /\ ~t.must_cancel
                 => t.iterations < MaxIterations
           /\ refresher' =
                 [refresher EXCEPT !.tasks[i] =
                     IF t.must_cancel THEN ObserveCancel(t)
                     ELSE IF t.pc = "iterating" THEN AfterAwait(t, ok)
                     ELSE StartIteration(t)]

\* _wishlist_refresh: the owner's command awaits refresh_all_wishlist_dates
\* on its own, whatever the loop is doing
ManualRefreshStart ==
    /\ refresher.loaded
    /\ refresher.manual < MaxManual
    /\ refresher' = [refresher EXCEPT !.manual = @ + 1]

ManualRefreshReturn ==
    /\ refresher.manual > 0
    /\ refresher' = [refresher EXCEPT !.manual = @ - 1]

----------------------------------------------------------------------------
(* Specifications: the refresh loop tasks of the cog                        *)

NextTaskStep == \E i \in 1..MaxTasks, ok \in BOOLEAN : TaskStep(i, ok)

RefresherFrame ==
    UNCHANGED <<newsVars, wlVars, rfVars, lpVars, poVars, now, faults>>

NextRefresher ==
    \/ cog_load /\ RefresherFrame
    \/ cog_unload /\ RefresherFrame
    \/ NextTaskStep /\ RefresherFrame
    \/ ManualRefreshStart /\ RefresherFrame
    \/ ManualRefreshReturn /\ RefresherFrame

SpecRefresher == Init /\ [][NextRefresher]_vars

\* Every await of the loop completes (a database call, an HTTP call with a
\* timeout, a sleep) and the event loop then resumes the task
SpecRefresherFair ==
    /\ Init
    /\ [][NextRefresher]_vars
    /\ \A i \in 1..MaxTasks :
          WF_vars(\E ok \in BOOLEAN : TaskStep(i, ok) /\ RefresherFrame)

----------------------------------------------------------------------------
(* The store methods of BookmarkManager and WishlistManager, called one     *)
(* at a time                                                                *)

\* The games handed to add_to_wishlist: with and without an id, with and
\* without a first_release_date of their own, with and without dated
\* release_dates elements
StoreGames ==
    { g \in [id : GameIds, name : GameNames, slug : Slugs,
             cover_url : CoverUrls, first_release_date : ReleaseDates,
             release_dates : ReleaseLists \cup {<<NoTs>>},
             platforms : PlatformLists] :
        g.id = NoId => g.first_release_date # NoTs /\ g.release_dates = <<>> }

\* The user of the calls
StoreUsers == {1}

\* The entries handed to add_bookmark
StoreEntryIds == {"miniflux:1", "url:https://x.test/a"}

\* How a call of a store method ended: it returned a bool, it returned a
\* list, or it raised
ReturnedBool(ret) == [kind |-> "bool", ret |-> ret, rows |-> <<>>]
ReturnedList(rows) == [kind |-> "list", ret |-> FALSE, rows |-> rows]
Raised == [kind |-> "raised", ret |-> FALSE, rows |-> <<>>]

\* An add_to_wishlist that does not look at the id of the game
add_to_wishlist_any_id(tbl, user_id, game, ts, dbOk) ==
    IF ~dbOk THEN <<tbl, FALSE>>
    ELSE IF is_in_wishlist(tbl, user_id, game.id) THEN <<tbl, FALSE>>
    ELSE <<Append(tbl, WishlistRow(user_id, game, ts)), TRUE>>

\* add_to_wishlist, run without another call in between:
\* <<wishlists, return value>>
add_to_wishlist(tbl, user_id, game, ts, dbOk) ==
    IF NoGameId(game.id) THEN <<tbl, FALSE>>
    ELSE IF ~dbOk THEN <<tbl, FALSE>>
    ELSE IF is_in_wishlist(tbl, user_id, game.id) THEN <<tbl, FALSE>>
    ELSE <<InsertWishlist(tbl, WishlistRow(user_id, game, ts))[1], TRUE>>

\* clear_user_wishlist: <<wishlists, return value>>
clear_user_wishlist(tbl, user_id, dbOk) ==
    IF dbOk THEN <<SelectSeq(tbl, LAMBDA r : r.user_id # user_id), TRUE>>
    ELSE <<tbl, FALSE>>

\* is_bookmarked and get_user_bookmarks catch the exception of their SELECT
CallIsBookmarked(bms, user_id, entry_id, dbOk) ==
    ReturnedBool(dbOk /\ is_bookmarked(bms, user_id, entry_id))

CallGetUserBookmarks(news, bms, user_id, dbOk) ==
    ReturnedList(IF dbOk THEN get_user_bookmarks(news, bms, user_id) ELSE <<>>)

\* is_in_wishlist and get_user_wishlist have no try: the exception of
\* aiosqlite.connect or of the SELECT leaves the method
CallIsInWishlist(tbl, user_id, game_id, dbOk) ==
    IF dbOk THEN ReturnedBool(is_in_wishlist(tbl, user_id, game_id)) ELSE Raised

CallGetUserWishlist(tbl, user_id, dbOk) ==
    IF dbOk THEN ReturnedList(get_user_wishlist(tbl, user_id)) ELSE Raised

CallGetUserVisibility(tbl, user_id, dbOk) ==
    ReturnedBool(get_user_visibility(tbl, user_id, dbOk))

\* What the call was and how it ended
StoreCall(op, user, game, out, hadRow, rowBefore, dbOk) ==
    WLast(op, user, user, game, out.ret, hadRow, rowBefore, dbOk, out.kind,
          out.rows)

StoreAddBookmark(user, entry_id, stubOk, dbOk) ==
    LET res == add_bookmark(news_entries, bookmarks, user, entry_id, "t1",
                            "https://x.test/a", None, now + 1, stubOk, dbOk)
    IN  /\ now < MaxClock
        /\ now' = now + 1
        /\ news_entries' = res[1]
        /\ bookmarks' = res[2]
        /\ wlast' = StoreCall("add_bookmark", user, NoGame, ReturnedBool(res[3]),
                              is_bookmarked(bookmarks, user, entry_id), NoRow,
                              dbOk)
        /\ UNCHANGED <<wishlists, user_settings>>

StoreRemoveBookmark(user, entry_id, dbOk) ==
    LET res == remove_bookmark(bookmarks, user, entry_id, dbOk)
    IN  /\ bookmarks' = res[1]
        /\ wlast' = StoreCall("remove_bookmark", user, NoGame,
                              ReturnedBool(res[2]),
                              is_bookmarked(bookmarks, user, entry_id), NoRow,
                              dbOk)
        /\ UNCHANGED <<news_entries, wishlists, user_settings, now>>

StoreIsBookmarked(user, entry_id, dbOk) ==
    /\ wlast' = StoreCall("is_bookmarked", user, NoGame,
                          CallIsBookmarked(bookmarks, user, entry_id, dbOk),
                          is_bookmarked(bookmarks, user, entry_id), NoRow, dbOk)
    /\ UNCHANGED <<news_entries, bookmarks, wishlists, user_settings, now>>

StoreGetUserBookmarks(user, dbOk) ==
    /\ wlast' = StoreCall("get_user_bookmarks", user, NoGame,
                          CallGetUserBookmarks(news_entries, bookmarks, user, dbOk),
                          FALSE, NoRow, dbOk)
    /\ UNCHANGED <<news_entries, bookmarks, wishlists, user_settings, now>>

StoreAddToWishlist(user, game, dbOk) ==
    LET res == add_to_wishlist(wishlists, user, game, now + 1, dbOk)
    IN  /\ now < MaxClock
        /\ now' = now + 1
        /\ wishlists' = res[1]
        /\ wlast' = StoreCall("add_to_wishlist", user, game, ReturnedBool(res[2]),
                              is_in_wishlist(wishlists, user, game.id),
                              WishlistRowOf(wishlists, user, game.id), dbOk)
        /\ UNCHANGED <<news_entries, bookmarks, user_settings>>

StoreRemoveFromWishlist(user, game, dbOk) ==
    LET res == remove_from_wishlist(wishlists, user, game.id, dbOk)
    IN  /\ wishlists' = res[1]
        /\ wlast' = StoreCall("remove_from_wishlist", user, game,
                              ReturnedBool(res[2]),
                              is_in_wishlist(wishlists, user, game.id),
                              WishlistRowOf(wishlists, user, game.id), dbOk)
        /\ UNCHANGED <<news_entries, bookmarks, user_settings, now>>

StoreClearUserWishlist(user, dbOk) ==
    LET res == clear_user_wishlist(wishlists, user, dbOk)
    IN  /\ wishlists' = res[1]
        /\ wlast' = StoreCall("clear_user_wishlist", user, NoGame,
                              ReturnedBool(res[2]),
                              get_user_wishlist(wishlists, user) # <<>>, NoRow,
                              dbOk)
        /\ UNCHANGED <<news_entries, bookmarks, user_settings, now>>

StoreIsInWishlist(user, game, dbOk) ==
    /\ wlast' = StoreCall("is_in_wishlist", user, game,
                          CallIsInWishlist(wishlists, user, game.id, dbOk),
                          is_in_wishlist(wishlists, user, game.id),
                          WishlistRowOf(wishlists, user, game.id), dbOk)
    /\ UNCHANGED <<news_entries, bookmarks, wishlists, user_settings, now>>

StoreGetUserWishlist(user, dbOk) ==
    /\ wlast' = StoreCall("get_user_wishlist", user, NoGame,
                          CallGetUserWishlist(wishlists, user, dbOk),
                          get_user_wishlist(wishlists, user) # <<>>, NoRow, dbOk)
    /\ UNCHANGED <<news_entries, bookmarks, wishlists, user_settings, now>>

StoreGetUserVisibility(user, dbOk) ==
    /\ wlast' = StoreCall("get_user_visibility", user, NoGame,
                          CallGetUserVisibility(user_settings, user, dbOk),
                          HasSettings(user_settings, user), NoRow, dbOk)
    /\ UNCHANGED <<news_entries, bookmarks, wishlists, user_settings, now>>

StoreSetUserVisibility(user, public, dbOk) ==
    LET res == set_user_visibility(user_settings, user, public, dbOk)
    IN  /\ user_settings' = res[1]
        /\ wlast' = StoreCall("set_user_visibility", user, NoGame,
                              ReturnedBool(res[2]),
                              HasSettings(user_settings, user), NoRow, dbOk)
        /\ UNCHANGED <<news_entries, bookmarks, wishlists, now>>

----------------------------------------------------------------------------
(* Specification: store methods called directly, any call may fail          *)

StoreFrame ==
    UNCHANGED <<channel, bmPanels, last, wlPanels, wlCalls, granted, rfVars,
                lpVars, poVars, rlVars, faults>>

NextStore ==
    \/ /\ \E user \in StoreUsers, entry_id \in StoreEntryIds, stubOk, dbOk \in BOOLEAN :
             /\ ~dbOk => stubOk
             /\ StoreAddBookmark(user, entry_id, stubOk, dbOk)
       /\ StoreFrame
    \/ /\ \E user \in StoreUsers, entry_id \in StoreEntryIds, dbOk \in BOOLEAN :
             StoreRemoveBookmark(user, entry_id, dbOk)
       /\ StoreFrame
    \/ /\ \E user \in StoreUsers, entry_id \in StoreEntryIds, dbOk \in BOOLEAN :
             StoreIsBookmarked(user, entry_id, dbOk)
       /\ StoreFrame
    \/ /\ \E user \in StoreUsers, dbOk \in BOOLEAN : StoreGetUserBookmarks(user, dbOk)
       /\ StoreFrame
    \/ /\ \E user \in StoreUsers, game \in StoreGames, dbOk \in BOOLEAN :
             StoreAddToWishlist(user, game, dbOk)
       /\ StoreFrame
    \/ /\ \E user \in StoreUsers, game \in StoreGames, dbOk \in BOOLEAN :
             StoreRemoveFromWishlist(user, game, dbOk)
       /\ StoreFrame
    \/ /\ \E user \in StoreUsers, dbOk \in BOOLEAN : StoreClearUserWishlist(user, dbOk)
       /\ StoreFrame
    \/ /\ \E user \in StoreUsers, game \in StoreGames, dbOk \in BOOLEAN :
             StoreIsInWishlist(user, game, dbOk)
       /\ StoreFrame
    \/ /\ \E user \in StoreUsers, dbOk \in BOOLEAN : StoreGetUserWishlist(user, dbOk)
       /\ StoreFrame
    \/ /\ \E user \in StoreUsers, dbOk \in BOOLEAN : StoreGetUserVisibility(user, dbOk)
       /\ StoreFrame
    \/ /\ \E user \in StoreUsers, public, dbOk \in BOOLEAN :
             StoreSetUserVisibility(user, public, dbOk)
       /\ StoreFrame

SpecStore == Init /\ [][NextStore]_vars

----------------------------------------------------------------------------
(* /wishlist clear and ClearWishlistView                                    *)

\* The confirmation panel of handle_clear, kept with the wishlist panels
ClearWishlistView(user_id) ==
    [game |-> NoGame, user_id |-> user_id, button |-> "clear"]

\* handle_clear: an empty wishlist is answered at once, a raise of
\* get_user_wishlist is caught, otherwise the confirmation panel opens
handle_clear(user, listOk) ==
    LET out == CallGetUserWishlist(wishlists, user, listOk)
        opens == out.kind = "list" /\ out.rows # <<>>
    IN  /\ BagCardinality(wlPanels) < MaxPanels
        /\ faults' = IF listOk THEN faults ELSE 1
        /\ wlPanels' = IF opens
                       THEN wlPanels (+) SetToBag({ClearWishlistView(user)})
                       ELSE wlPanels
        /\ wlast' = WLast("handle_clear", user, user, NoGame, opens, opens,
                          NoRow, listOk,
                          IF out.kind = "raised" THEN "error"
                          ELSE IF opens THEN "confirm" ELSE "already_empty",
                          <<>>)
        /\ UNCHANGED <<wishlists, user_settings, wlCalls, granted, now>>

\* ClearWishlistView.confirm_button
ConfirmClearClick(pv, clicker, dbOk) ==
    LET allowed == IsOwner(clicker, pv.user_id)
        res == clear_user_wishlist(wishlists, pv.user_id, dbOk)
        ok == allowed /\ res[2]
    IN  /\ BagIn(pv, wlPanels)
        /\ pv.button = "clear"
        /\ ~allowed => dbOk
        /\ faults' = IF dbOk THEN faults ELSE 1
        /\ wishlists' = IF ok THEN res[1] ELSE wishlists
        /\ granted' = IF ok
                      THEN [k \in DOMAIN granted |->
                               IF k[1] = pv.user_id THEN 0 ELSE granted[k]]
                      ELSE granted
        /\ wlPanels' = IF allowed THEN wlPanels (-) SetToBag({pv}) ELSE wlPanels
        /\ wlast' = WLast("ClearWishlistView.confirm", clicker, pv.user_id,
                          NoGame, ok,
                          get_user_wishlist(wishlists, pv.user_id) # <<>>,
                          NoRow, dbOk,
                          IF ~allowed THEN "forbidden"
                          ELSE IF ok THEN "cleared" ELSE "clear_error", <<>>)
        /\ UNCHANGED <<user_settings, wlCalls, now>>

\* ClearWishlistView.cancel_button
CancelClearClick(pv, clicker) ==
    LET allowed == IsOwner(clicker, pv.user_id)
    IN  /\ BagIn(pv, wlPanels)
        /\ pv.button = "clear"
        /\ wlPanels' = IF allowed THEN wlPanels (-) SetToBag({pv}) ELSE wlPanels
        /\ wlast' = WLast("ClearWishlistView.cancel", clicker, pv.user_id,
                          NoGame, allowed, FALSE, NoRow, TRUE,
                          IF allowed THEN "cancelled" ELSE "forbidden", <<>>)
        /\ UNCHANGED <<wishlists, user_settings, wlCalls, granted, now, faults>>

----------------------------------------------------------------------------
(* Specification: every per-user button, every store call succeeds          *)

\* The users who open panels; any user may press the buttons of a panel
PanelOwners == {1}

NextHandleClear == \E user \in PanelOwners : handle_clear(user, TRUE)

NextConfirmClear ==
    \E pv \in BagToSet(wlPanels), clicker \in Users :
        ConfirmClearClick(pv, clicker, TRUE)

NextCancelClear ==
    \E pv \in BagToSet(wlPanels), clicker \in Users : CancelClearClick(pv, clicker)

\* One feed item with a native id and one game with an id are enough to
\* put every kind of button on screen
ButtonFeedItems == { e \in FeedItems : e.id = 1 }
ButtonGames == { g \in Games : ~NoGameId(g.id) }

NextButtonsPost ==
    \E entry \in ButtonFeedItems, desc \in Descriptions, image \in Images :
        PostEntry(entry, TRUE, TRUE, desc, image, TRUE, TRUE)

NextButtonsOpenPanel ==
    \E user \in PanelOwners, entry \in channel :
        EntryBookmarkButtonClick(user, entry, TRUE)

NextButtonsWishlistButton ==
    \E user \in PanelOwners, game \in ButtonGames :
        WishlistButtonClick(user, game, TRUE)

\* Bookmark, wishlist and clear panels share the screen budget
ScreenHasRoom == BagCardinality(bmPanels) + BagCardinality(wlPanels) < MaxPanels

NextButtons ==
    \/ NextButtonsPost /\ UNCHANGED <<wlVars, rfVars, lpVars, poVars, rlVars>>
    \/ ScreenHasRoom /\ NextButtonsOpenPanel /\ UNCHANGED <<wlVars, rfVars, lpVars, poVars, rlVars>>
    \/ NextAdd({TRUE}) /\ UNCHANGED <<wlVars, rfVars, lpVars, poVars, rlVars>>
    \/ NextRemove({TRUE}) /\ UNCHANGED <<wlVars, rfVars, lpVars, poVars, rlVars>>
    \/ ScreenHasRoom /\ NextButtonsWishlistButton /\ UNCHANGED <<newsVars, rfVars, lpVars, poVars, rlVars>>
    \/ NextAddToWishlist({TRUE}) /\ UNCHANGED <<newsVars, rfVars, lpVars, poVars, rlVars>>
    \/ NextAddToWishlistInsert({TRUE}) /\ UNCHANGED <<newsVars, rfVars, lpVars, poVars, rlVars>>
    \/ NextRemoveFromWishlist({TRUE}) /\ UNCHANGED <<newsVars, rfVars, lpVars, poVars, rlVars>>
    \/ ScreenHasRoom /\ NextHandleClear /\ UNCHANGED <<newsVars, rfVars, lpVars, poVars, rlVars>>
    \/ NextConfirmClear /\ UNCHANGED <<newsVars, rfVars, lpVars, poVars, rlVars>>
    \/ NextCancelClear /\ UNCHANGED <<newsVars, rfVars, lpVars, poVars, rlVars>>
    \/ NextPanelTimeout /\ UNCHANGED <<wlVars, rfVars, lpVars, poVars, rlVars>>
    \/ NextWishlistPanelTimeout /\ UNCHANGED <<newsVars, rfVars, lpVars, poVars, rlVars>>

SpecButtons == Init /\ [][NextButtons]_vars

----------------------------------------------------------------------------
(* The life of a paginated view: WishlistListPanelView, BookmarksListPanel- *)
(* View and PaginatorView from the message that carries them to their end.  *)
(* A press of a control is an interaction in flight; the library hands it   *)
(* to the callback of the view for as long as it holds the view. A view     *)
(* leaves the library when its inactivity timeout fires (no callback of     *)
(* these views calls stop()).                                               *)

MaxPending == 2
MaxEmbeds == 2

\* The games put on a wishlist while a panel is open: one with a date, one
\* without
PanelGames ==
    { RefreshGame(7), [RefreshGame(8) EXCEPT !.first_release_date = NoTs] }

PanelUser == 1

\* The page sizes of the panels: that of handle_show or handle_bookmarks,
\* and 1, which pages a short list
WishlistPanelPageSizes == {1, WishlistPageSize}
BookmarksPanelPageSizes == {1, BookmarksPageSize}

\* PaginatorView.__init__ of search and sorties, over more than one embed:
\* page i shows embeds[i]
PaginatorView(games) ==
    [kind |-> "paginator", games |-> games, original_games |-> games,
     page_size |-> 1, current_page |-> 0, max_page |-> Len(games) - 1,
     sort_descending |-> TRUE, op |-> "open", from |-> 0]

\* followup.send(embed=..., view=view): the message shows the controls and
\* the library holds the view
Sent == [NoScreen EXCEPT !.view = "live", !.components = "enabled"]

\* handle_show: the panel over the wishlist get_user_wishlist returned
ShowWishlistPanel(user_wishlist, page_size) ==
    /\ screen.view = "none"
    /\ OpenWishlistListPanel(user_wishlist, page_size)
    /\ screen' = Sent

\* handle_bookmarks: the panel over the bookmarks get_user_bookmarks returned
ShowBookmarksPanel(bms, page_size) ==
    /\ screen.view = "none"
    /\ OpenBookmarksListPanel(bms, page_size)
    /\ screen' = Sent

\* search and sorties answer more than one result with a paginator
ShowPaginator(n) ==
    /\ screen.view = "none"
    /\ listPanel.kind = "none"
    /\ listPanel' = PaginatorView(WishlistSnapshot(n, <<NoTs, 100, 50>>))
    /\ screen' = Sent

\* The controls of each view
ControlsOf(kind) ==
    IF kind = "wishlist" THEN {"prev", "next", "toggle_sort", "select_item", "close"}
    ELSE IF kind = "bookmarks" THEN {"prev", "next", "select_item", "close"}
    ELSE {"prev", "next", "close"}

\* The options of the select menu: the absolute indices of the items of the
\* current page (1-based here)
PageIndices(panel) ==
    { i \in 1..Len(panel.games) :
        /\ i > panel.current_page * panel.page_size
        /\ i <= (panel.current_page + 1) * panel.page_size }

\* A user presses a control the message shows; the interaction is on its
\* way to the bot
Press(op, index) ==
    /\ screen.components = "enabled"
    /\ op \in ControlsOf(listPanel.kind)
    /\ IF op = "select_item" THEN index \in PageIndices(listPanel) ELSE index = 0
    /\ Cardinality(screen.pending) < MaxPending
    /\ [op |-> op, index |-> index] \notin screen.pending
    /\ screen' = [screen EXCEPT !.pending = @ \cup {[op |-> op, index |-> index]}]
    /\ UNCHANGED listPanel

\* The view after the callback of op has run
Callback(panel, op) ==
    IF op = "prev" THEN PreviousPage(panel)
    ELSE IF op = "next" THEN NextPage(panel)
    ELSE IF op = "toggle_sort" THEN ToggleSort(panel)
    ELSE [panel EXCEPT !.op = op, !.from = panel.current_page]

\* Whether the callback of op ends in edit_message(..., view=self)
ShowsView(panel, op) ==
    \/ op = "prev" /\ panel.current_page > 0
    \/ op = "next" /\ panel.current_page < panel.max_page
    \/ op = "toggle_sort"

\* What the view holds besides the record of its last callback
ViewState(panel) ==
    <<panel.games, panel.original_games, panel.current_page, panel.max_page,
      panel.sort_descending>>

\* The library hands an interaction to the view it holds: until the
\* timeout, since close_button / _close / delete_button only edit the message
Dispatched(sc) == sc.view = "live"

\* The library has an interaction: it runs the callback of a view it holds
\* and drops the interaction otherwise
Handle(i) ==
    LET runs == Dispatched(screen)
        after == Callback(listPanel, i.op)
        valid == i.index >= 1 /\ i.index <= Len(listPanel.games)
    IN  /\ listPanel' = IF runs THEN after ELSE listPanel
        /\ screen' =
             [screen EXCEPT
                !.pending = @ \ {i},
                !.components =
                    IF ~runs THEN @
                    ELSE IF i.op = "close" THEN "none"
                    ELSE IF ShowsView(listPanel, i.op) THEN "enabled" ELSE @,
                !.closed = @ \/ (runs /\ i.op = "close"),
                !.detail =
                    IF runs /\ i.op = "select_item" /\ valid
                    THEN <<listPanel.games[i.index]>> ELSE @,
                !.delivered =
                    [op |-> i.op, index |-> i.index,
                     outcome |-> IF runs THEN "handled" ELSE "rejected",
                     after_close |-> screen.closed,
                     after_timeout |-> screen.view = "timed_out",
                     changed |-> runs /\ ViewState(after) # ViewState(listPanel)]]

\* An interaction in flight reaches the bot
Deliver(i) ==
    /\ i \in screen.pending
    /\ Handle(i)

\* A press that reaches the bot before anything else happens
PressAndDeliver(op, index) ==
    /\ screen.components = "enabled"
    /\ op \in ControlsOf(listPanel.kind)
    /\ IF op = "select_item" THEN index \in PageIndices(listPanel) ELSE index = 0
    /\ Handle([op |-> op, index |-> index])

\* on_timeout. PaginatorView disables its children and edits the message
\* when the view has a message attribute and the edit succeeds; the two
\* list panels inherit the on_timeout of View, which does nothing.
on_timeout(sc, kind, hasMessage, editOk) ==
    IF kind = "paginator"
    THEN [sc EXCEPT !.children_disabled = TRUE,
                    !.components = IF hasMessage /\ editOk THEN "disabled" ELSE @]
    ELSE sc

\* timeout seconds without an interaction: the library drops the view and
\* calls on_timeout
Timeout(hasMessage, editOk) ==
    /\ screen.view = "live"
    /\ screen' = on_timeout([screen EXCEPT !.view = "timed_out"],
                            listPanel.kind, hasMessage, editOk)
    /\ UNCHANGED listPanel

----------------------------------------------------------------------------
(* Specification: one paginated view from its message to its timeout        *)

NextShowWishlistPanel ==
    \E n \in 1..MaxEmbeds, page_size \in WishlistPanelPageSizes :
        ShowWishlistPanel(WishlistSnapshot(n, <<NoTs, 100, 50>>), page_size)

NextShowBookmarksPanel ==
    \E n \in 1..MaxEmbeds, page_size \in BookmarksPanelPageSizes :
        ShowBookmarksPanel(BookmarkSnapshot(n), page_size)

NextShowPaginator == \E n \in 2..MaxEmbeds : ShowPaginator(n)

NextPress ==
    \E op \in ControlsOf("wishlist"), index \in 0..MaxEmbeds : Press(op, index)

NextDeliver == \E i \in screen.pending : Deliver(i)

NextTimeout == \E hasMessage, editOk \in BOOLEAN : Timeout(hasMessage, editOk)

ViewFrame ==
    UNCHANGED <<newsVars, wlVars, rfVars, poVars, rlVars, now, faults>>

NextPanelLife ==
    \/ NextShowWishlistPanel /\ ViewFrame
    \/ NextShowBookmarksPanel /\ ViewFrame
    \/ NextShowPaginator /\ ViewFrame
    \/ NextPress /\ ViewFrame
    \/ NextDeliver /\ ViewFrame
    \/ NextTimeout /\ ViewFrame

SpecPanelLife == Init /\ [][NextPanelLife]_vars

----------------------------------------------------------------------------
(* Specification: a list panel over the store, and the store calls made     *)
(* while it is open                                                         *)

\* The UPDATE of refresh_all_wishlist_dates for one game
PanelStoreRefresh(game_id, new_ts) ==
    /\ is_in_wishlist(wishlists, PanelUser, game_id)
    /\ wishlists' = UpdateReleaseDate(wishlists, game_id, new_ts)
    /\ UNCHANGED <<news_entries, bookmarks>>

PanelStoreAddToWishlist(game) ==
    /\ wishlists' = add_to_wishlist(wishlists, PanelUser, game, now, TRUE)[1]
    /\ UNCHANGED <<news_entries, bookmarks>>

PanelStoreRemoveFromWishlist(game_id) ==
    /\ wishlists' = remove_from_wishlist(wishlists, PanelUser, game_id, TRUE)[1]
    /\ UNCHANGED <<news_entries, bookmarks>>

PanelStoreClearWishlist ==
    /\ wishlists' = clear_user_wishlist(wishlists, PanelUser, TRUE)[1]
    /\ UNCHANGED <<news_entries, bookmarks>>

PanelStoreAddBookmark(entry_id) ==
    LET res == add_bookmark(news_entries, bookmarks, PanelUser, entry_id, "t1",
                            "https://x.test/a", None, now, TRUE, TRUE)
    IN  /\ news_entries' = res[1]
        /\ bookmarks' = res[2]
        /\ UNCHANGED wishlists

PanelStoreRemoveBookmark(entry_id) ==
    /\ bookmarks' = remove_bookmark(bookmarks, PanelUser, entry_id, TRUE)[1]
    /\ UNCHANGED <<news_entries, wishlists>>

NextShowStoredWishlist ==
    \E page_size \in WishlistPanelPageSizes :
        ShowWishlistPanel(get_user_wishlist(wishlists, PanelUser), page_size)

NextShowStoredBookmarks ==
    \E page_size \in BookmarksPanelPageSizes :
        ShowBookmarksPanel(get_user_bookmarks(news_entries, bookmarks, PanelUser),
                           page_size)

NextPressAndDeliver ==
    \E op \in ControlsOf("wishlist"), index \in 0..MaxEmbeds :
        PressAndDeliver(op, index)

PanelStoreFrame ==
    UNCHANGED <<channel, bmPanels, last, user_settings, wlPanels, wlCalls,
                granted, wlast, rfVars, lpVars, poVars, rlVars, now, faults>>

NextPanelSnapshot ==
    \/ NextShowStoredWishlist /\ ViewFrame
    \/ NextShowStoredBookmarks /\ ViewFrame
    \/ NextPressAndDeliver /\ ViewFrame
    \/ (\E game \in PanelGames : PanelStoreAddToWishlist(game)) /\ PanelStoreFrame
    \/ (\E game \in PanelGames : PanelStoreRemoveFromWishlist(game.id)) /\ PanelStoreFrame
    \/ PanelStoreClearWishlist /\ PanelStoreFrame
    \/ (\E game \in PanelGames, new_ts \in NewDates :
            PanelStoreRefresh(game.id, new_ts)) /\ PanelStoreFrame
    \/ (\E entry_id \in StoreEntryIds : PanelStoreAddBookmark(entry_id)) /\ PanelStoreFrame
    \/ (\E entry_id \in StoreEntryIds : PanelStoreRemoveBookmark(entry_id)) /\ PanelStoreFrame

SpecPanelSnapshot == Init /\ [][NextPanelSnapshot]_vars

----------------------------------------------------------------------------
(* Claims on the entry and bookmark stores                                  *)

\* An item as the feed source delivers it: a positive native id and a url
Native(entry) == entry.id >= 1 /\ Truthy(entry.url)

\* No call failed so far and every posted item is a Native one
PlainRun == faults = 0 /\ \A e \in channel : Native(e)

AddRan == last.op = "AddBookmarkButton" /\ last.reply # "forbidden"
RemoveRan == last.op = "RemoveBookmarkButton" /\ last.reply # "forbidden"

\* C1: however often add_bookmark runs for the same (user_id, entry_id), the
\* bookmarks table holds one row for the pair, and an add_bookmark whose
\* store calls do not fail returns True, also when the pair was there before.
C1_AddBookmarkIdempotent ==
    /\ \A i, j \in 1..Len(bookmarks) :
          BookmarkConflict(bookmarks[i], bookmarks[j]) => i = j
    /\ (AddRan /\ last.clean) =>
          /\ last.ret
          /\ BookmarkCount(bookmarks, last.user, last.key) = 1

\* C1 witness: an add_bookmark for a pair that was bookmarked already
C1_Witness ==
    AddRan /\ last.hadBookmark /\ last.ret /\ faults = 0

\* C2: the entry_id the bookmark button derives for a posted item is the
\* entry_id post_entry derived for it when it stored the item.
C2_SameIdOnBothPaths ==
    (last.op = "EntryBookmarkButton" /\ faults = 0) =>
        last.key = post_entry_id(last.entry)

UrlOnly(entry) == entry.id = NoId /\ Truthy(entry.url)

\* C3: an item with a url U and no native id is stored by post_entry under
\* "url:" + U; the Add button bookmarks it under that entry_id and the
\* Remove button deletes that bookmark, so that is_bookmarked is False.
C3_UrlItemEndToEnd ==
    (UrlOnly(last.entry) /\ last.clean) =>
        LET eid == "url:" \o last.entry.url
        IN  /\ last.op = "post_entry" =>
                  /\ last.key = eid
                  /\ HasEntry(news_entries, eid)
            /\ AddRan =>
                  /\ last.key = eid
                  /\ last.ret
                  /\ is_bookmarked(bookmarks, last.user, eid)
            /\ RemoveRan =>
                  /\ last.key = eid
                  /\ last.ret
                  /\ ~is_bookmarked(bookmarks, last.user, eid)

\* C3 witness: the Remove button deleted the bookmark of a url-only item
\* that was posted and bookmarked before
C3_Witness ==
    /\ RemoveRan /\ UrlOnly(last.entry) /\ last.hadBookmark /\ last.ret
    /\ HasEntry(news_entries, "url:" \o last.entry.url)
    /\ faults = 0

\* C4: add_bookmark for an entry_id that has no news_entries row creates a
\* stub row with that entry_id (stated for runs without failures over
\* Native items).
C4_StubCreated ==
    (AddRan /\ last.ret /\ ~last.hadEntry /\ PlainRun) =>
        HasEntry(news_entries, last.key)

\* C5: every row of bookmarks has an entry_id for which a news_entries row
\* exists (stated for runs without failures over Native items).
C5_BookmarkHasEntry ==
    PlainRun =>
        \A i \in 1..Len(bookmarks) : HasEntry(news_entries, bookmarks[i].entry_id)

\* C6: an entry_id that is present in news_entries stays present (stated
\* for runs without failures over Native items).
C6_EntryNeverDeleted ==
    [][ PlainRun' =>
          \A i \in 1..Len(news_entries) :
              HasEntry(news_entries', news_entries[i].entry_id) ]_vars

----------------------------------------------------------------------------
(* Claims on the wishlist store                                             *)

\* add_to_wishlist ran to its return, at once or after its INSERT
AddToWishlistRan ==
    /\ wlast.op \in {"AddToWishlistButton", "add_to_wishlist:insert"}
    /\ wlast.reply # "forbidden"

\* The rows of wishlists for user u and game id g
RowsOf(u, g) ==
    { i \in 1..Len(wishlists) :
        wishlists[i].user_id = u /\ wishlists[i].game_id = g }

\* C7: for a user and a game with an id, add_to_wishlist returns True when
\* the (user, game) row is absent and False when it is present (a second
\* call with no remove in between), and after the call wishlists holds
\* exactly one row for the pair.
C7_AddToWishlistOnce ==
    (AddToWishlistRan /\ wlast.clean /\ ~NoGameId(wlast.game.id)) =>
        /\ wlast.ret = ~wlast.hadRow
        /\ Cardinality(RowsOf(wlast.target, wlast.game.id)) = 1

\* C7 witness: a second add_to_wishlist found the row and returned False
C7_Witness ==
    /\ wlast.op = "AddToWishlistButton" /\ wlast.reply # "forbidden"
    /\ wlast.hadRow /\ ~wlast.ret /\ faults = 0
    /\ Cardinality(RowsOf(wlast.target, wlast.game.id)) = 1
    /\ granted[<<wlast.target, wlast.game.id>>] = 1

\* C8: when two add_to_wishlist calls for the same (user, game) have both
\* passed their existence check, wishlists never holds more than one row
\* for the pair, at most one of the calls returns True, the row is the one
\* the winner wrote with every field intact, the loser leaves it as it was,
\* and the callback of neither call reports a raise.
C8_ConcurrentAdds ==
    /\ \A u \in Users, g \in RealGameIds :
          /\ Cardinality(RowsOf(u, g)) <= 1
          /\ granted[<<u, g>>] = Cardinality(RowsOf(u, g))
    /\ wlast.op = "add_to_wishlist:insert" =>
          LET rows == RowsOf(wlast.target, wlast.game.id)
          IN  /\ wlast.reply \in {"added", "add_error"}
              /\ wlast.clean => Cardinality(rows) = 1
              /\ \A i \in rows :
                    IF wlast.ret
                    THEN wishlists[i] = WishlistRow(wlast.target, wlast.game,
                                                    wishlists[i].added_at)
                    ELSE wishlists[i] = wlast.rowBefore

\* C8 witness: a call that passed its existence check found the row of the
\* other call at its INSERT and returned False
C8_Witness ==
    /\ wlast.op = "add_to_wishlist:insert"
    /\ wlast.hadRow /\ ~wlast.ret /\ faults = 0
    /\ granted[<<wlast.target, wlast.game.id>>] = 1
    /\ Cardinality(RowsOf(wlast.target, wlast.game.id)) = 1

\* C9: when add_to_wishlist returns False because the (user, game) row is
\* there already, the click is not answered with an error message.
C9_DuplicateNotAnError ==
    (AddToWishlistRan /\ ~wlast.ret /\ wlast.hadRow /\ faults = 0) =>
        wlast.reply # "add_error"

ShowRan == wlast.op = "handle_show"

\* The user_settings row of user u says the wishlist is public
SetPublic(u) == \E r \in user_settings : r.user_id = u /\ r.public # 0

\* C10: get_user_visibility is False for a user without a user_settings
\* row; handle_show answers another user with the refusal and no wishlist
\* row whenever the target's visibility is False; and it never refuses a
\* user who asks for their own wishlist.
C10_PrivateByDefault ==
    /\ \A u \in Users :
          (\A r \in user_settings : r.user_id # u) =>
              ~get_user_visibility(user_settings, u, TRUE)
    /\ ShowRan =>
          /\ (wlast.user # wlast.target /\ ~SetPublic(wlast.target)) =>
                /\ ~wlast.ret
                /\ wlast.reply = "private"
                /\ wlast.content = <<>>
          /\ wlast.user = wlast.target => wlast.reply # "private"

\* C10 witness: a user without a user_settings row has a game wishlisted
\* and another user asked to see the wishlist
C10_Witness ==
    /\ ShowRan /\ wlast.user # wlast.target /\ wlast.clean
    /\ \A r \in user_settings : r.user_id # wlast.target
    /\ get_user_wishlist(wishlists, wlast.target) # <<>>
    /\ wlast.reply = "private"

----------------------------------------------------------------------------
(* Claims on the bulk refresh                                               *)

\* How many elements of seq are v
CountOf(seq, v) == Cardinality({ i \in 1..Len(seq) : seq[i] = v })

\* The elements of a sequence
Range(seq) == { seq[i] : i \in 1..Len(seq) }

\* refresh_all_wishlist_dates returned after its loop over the batches
RefreshDone == refresh.pc = "done" /\ refresh.igdb

\* C11: when no lookup and no store call of a refresh fails, every id the
\* lookup returns with a release date is counted as updated, every id the
\* response leaves out is counted as missing and failed is 0; three ids
\* with two dates and one id left out give updated=2, missing=1, failed=0.
C11_RefreshAccounting ==
    (RefreshDone /\ faults = 0) =>
        /\ \A i \in 1..Len(refresh.kinds) :
              /\ refresh.kinds[i] = "date" => refresh.counted[i] = "updated"
              /\ refresh.kinds[i] = "absent" => refresh.counted[i] = "missing"
        /\ last_refresh.updated = CountOf(refresh.kinds, "date")
        /\ last_refresh.failed = 0
        /\ (/\ Len(refresh.ids) = 3
            /\ CountOf(refresh.kinds, "date") = 2
            /\ CountOf(refresh.kinds, "absent") = 1)
              => last_refresh = [updated |-> 2, unchanged |-> 0,
                                 missing |-> 1, failed |-> 0]

\* C11 witness: a refresh over three ids, two returned with a date and one
\* left out, all in one batch
C11_Witness ==
    /\ RefreshDone /\ faults = 0
    /\ Len(refresh.ids) = 3 /\ Len(refresh.ids) <= batch_size
    /\ CountOf(refresh.kinds, "date") = 2
    /\ CountOf(refresh.kinds, "absent") = 1
    /\ last_refresh = [updated |-> 2, unchanged |-> 0, missing |-> 1, failed |-> 0]

\* C12: an id the response holds without a usable release date is counted
\* as unchanged, and an id the response leaves out is counted as missing.
C12_NoDateIsUnchanged ==
    RefreshDone =>
        \A i \in 1..Len(refresh.kinds) :
            /\ refresh.kinds[i] = "nodate" => refresh.counted[i] = "unchanged"
            /\ refresh.kinds[i] = "absent" => refresh.counted[i] = "missing"

\* C13: when the lookup of a batch raises, every id of the batch is counted
\* as failed, every id of the other batches is still looked up and its date
\* written, and the summary holds the counts of all batches.
C13_FailedBatchIsolated ==
    RefreshDone =>
        /\ Len(refresh.kinds) = Len(refresh.ids)
        /\ \A i \in 1..Len(refresh.kinds) :
              /\ refresh.kinds[i] = "raised" => refresh.counted[i] = "failed"
              /\ refresh.counted[i] = "updated" =>
                    \A j \in 1..Len(wishlists) :
                        wishlists[j].game_id = refresh.ids[i]
                            => wishlists[j].first_release_date \in NewDates
        /\ last_refresh.updated = CountOf(refresh.counted, "updated")
        /\ last_refresh.missing = CountOf(refresh.counted, "missing")
        /\ last_refresh.failed = CountOf(refresh.counted, "failed")
        /\ last_refresh.failed >= CountOf(refresh.kinds, "raised")

\* C13 witness: the lookup of the first batch raised and an id of the
\* second batch was updated
C13_Witness ==
    /\ RefreshDone
    /\ \E i, j \in 1..Len(refresh.kinds) :
          /\ i < j
          /\ refresh.kinds[i] = "raised"
          /\ refresh.counted[j] = "updated"
    /\ last_refresh.failed = batch_size
    /\ last_refresh.updated = 1

----------------------------------------------------------------------------
(* Claims on the list panels                                                *)

\* The least q with q * p >= n
CeilDiv(n, p) == CHOOSE q \in 0..n : q * p >= n /\ (q - 1) * p < n

\* The row has no usable release date
MissingDate(g) == g.first_release_date = NoTs \/ g.first_release_date = 0

\* The game ids of the rows, in order
GameIdsOf(rows) == [i \in 1..Len(rows) |-> rows[i].game_id]

\* The snapshot {A: none, B: 100, C: 50}, A = 1, B = 2, C = 3
IsNoneHundredFifty(rows) ==
    /\ Len(rows) = 3
    /\ \E i, j, k \in 1..3 :
          /\ rows[i].game_id = 1 /\ rows[i].first_release_date = NoTs
          /\ rows[j].game_id = 2 /\ rows[j].first_release_date = 100
          /\ rows[k].game_id = 3 /\ rows[k].first_release_date = 50

\* C14: an open list panel over n items with page size p has
\* max_page = ceil(n/p) - 1; whatever buttons were clicked, current_page
\* stays within 0..max_page; next at max_page and prev at page 0 leave
\* current_page where it was.
C14_PageWithinBounds ==
    listPanel.kind # "none" =>
        /\ listPanel.max_page
              = CeilDiv(Len(listPanel.games), listPanel.page_size) - 1
        /\ listPanel.current_page >= 0
        /\ listPanel.current_page <= listPanel.max_page
        /\ (listPanel.op = "next" /\ listPanel.from = listPanel.max_page
               => listPanel.current_page = listPanel.from)
        /\ (listPanel.op = "prev" /\ listPanel.from = 0
               => listPanel.current_page = 0)

\* C14 witness: 23 items, page size 10, max_page 2, and next was clicked
\* on page 2
C14_Witness ==
    /\ listPanel.kind # "none"
    /\ Len(listPanel.games) = 23
    /\ listPanel.page_size = 10
    /\ listPanel.max_page = 2
    /\ listPanel.op = "next"
    /\ listPanel.from = 2
    /\ listPanel.current_page = 2

\* C15: the wishlist list panel shows the rows of its snapshot; ascending,
\* every row without a usable date comes after every dated row and dates
\* do not decrease; descending, rows without a date come first and dates
\* do not increase; {A: none, B: 100, C: 50} reads [C, B, A] ascending and
\* [A, B, C] descending.
C15_MissingDatesLastAscending ==
    listPanel.kind = "wishlist" =>
        LET games == listPanel.games
        IN  /\ Len(games) = Len(listPanel.original_games)
            /\ \A g \in Range(listPanel.original_games) :
                  CountOf(games, g) = CountOf(listPanel.original_games, g)
            /\ \A i, j \in 1..Len(games) :
                  i < j =>
                      IF listPanel.sort_descending
                      THEN /\ MissingDate(games[j]) => MissingDate(games[i])
                           /\ ~MissingDate(games[i]) /\ ~MissingDate(games[j])
                                 => games[i].first_release_date
                                       >= games[j].first_release_date
                      ELSE /\ MissingDate(games[i]) => MissingDate(games[j])
                           /\ ~MissingDate(games[i]) /\ ~MissingDate(games[j])
                                 => games[i].first_release_date
                                       <= games[j].first_release_date
            /\ IsNoneHundredFifty(listPanel.original_games) =>
                  GameIdsOf(games) = IF listPanel.sort_descending
                                     THEN <<1, 2, 3>> ELSE <<3, 2, 1>>

\* C15 witness: the snapshot {A: none, B: 100, C: 50} was toggled to
\* ascending and reads [C, B, A]
C15_Witness ==
    /\ listPanel.kind = "wishlist"
    /\ IsNoneHundredFifty(listPanel.original_games)
    /\ listPanel.op = "toggle_sort"
    /\ ~listPanel.sort_descending
    /\ GameIdsOf(listPanel.games) = <<3, 2, 1>>

----------------------------------------------------------------------------
(* Claims on the feed poller                                                *)

\* The ids of the items of the cycle for which post_entry returned True
SuccessIds(results) ==
    LET Ok(r) == r.success
    IN  [i \in 1..Len(SelectSeq(results, Ok)) |-> SelectSeq(results, Ok)[i].id]

\* The ids of the fetched items, in order
EntryIds(entries) == [i \in 1..Len(entries) |-> entries[i].id]

\* The for loop of process_entries is over
BatchOver == poller.pc \in {"mark", "sleep"} /\ poller.entries # <<>>

\* process_entries returned and the loop sleeps
CycleOver == poller.pc = "sleep" /\ poller.failure # "fetch"

\* C16: every id handed to mark_as_read belongs to an item of the cycle
\* whose upsert into news_entries and whose channel post both succeeded.
C16_MarkedOnlyIfPersistedAndPosted ==
    \A c \in Range(poller.marks) :
        \A id \in Range(c.ids) :
            \E r \in Range(poller.results) :
                r.id = id /\ r.persisted /\ r.success

\* C17: once the loop over the batch is over, post_entry was attempted for
\* every fetched item, in fetch order, whatever failed on the way; while
\* the loop runs, every item before the current one was attempted.
C17_EveryItemAttempted ==
    /\ BatchOver => EntryIds(poller.results) = EntryIds(poller.entries)
    /\ poller.pc = "post" =>
          /\ poller.next <= Len(poller.entries)
          /\ EntryIds(poller.results)
                = EntryIds(SubSeq(poller.entries, 1, poller.next - 1))

\* C17 witness: the first item of a batch of two failed and the second
\* was posted
C17_Witness ==
    /\ BatchOver
    /\ Len(poller.entries) = 2
    /\ Len(poller.results) = 2
    /\ ~poller.results[1].success
    /\ poller.results[2].success

\* C18: a cycle calls mark_as_read at most once, only when every item of
\* the batch was attempted, with exactly the ids for which post_entry
\* returned True, and a cycle that posted something does call it; the step
\* of the call, failed or not, leaves the channel and news_entries as they
\* were, and a failed call leaves the feed server as it was.
C18_MarkOnceAfterBatch ==
    /\ [](/\ Len(poller.marks) <= 1
          /\ poller.marks # <<>> =>
                /\ EntryIds(poller.results) = EntryIds(poller.entries)
                /\ poller.marks[1].ids = SuccessIds(poller.results)
          /\ CycleOver /\ SuccessIds(poller.results) # <<>> =>
                Len(poller.marks) = 1)
    /\ [][poller.pc = "mark" =>
            /\ channel' = channel
            /\ news_entries' = news_entries
            /\ (poller'.failure = "mark" => upstream' = upstream)]_vars

\* C18 witness: of a batch of two, one item was posted; mark_as_read was
\* called with its id and failed; the post and the row are there
C18_Witness ==
    /\ CycleOver
    /\ Len(poller.results) = 2
    /\ Len(poller.marks) = 1
    /\ ~poller.marks[1].ok
    /\ Len(poller.marks[1].ids) = 1
    /\ \E e \in channel : e.id = poller.marks[1].ids[1]
    /\ news_entries # <<>>
    /\ upstream[poller.marks[1].ids[1]] = "unread"

C20_SleepFollowsBatch ==
    CycleOver =>
        /\ poller.sleep_time = fetch_interval_with_entries
              <=> poller.entries # <<>>
        /\ poller.sleep_time = fetch_interval_no_entries
              <=> poller.entries = <<>>

----------------------------------------------------------------------------
(* Claims on the refresh loop                                               *)

\* The loop tasks inside an iteration
Iterating == { i \in 1..Len(refresher.tasks) : refresher.tasks[i].pc = "iterating" }

\* C21: at most one _daily_refresh_loop task is inside an iteration at any
\* time, over any sequence of cog_load and cog_unload, and an iteration
\* starts only when no task is inside one.
C21_NoOverlappingIterations ==
    /\ [](Cardinality(Iterating) <= 1)
    /\ [][\A i \in 1..Len(refresher.tasks) :
             refresher'.tasks[i].iterations > refresher.tasks[i].iterations
                => Iterating = {}]_vars

\* C21 witness: the task of an unloaded cog was cancelled after it had
\* iterated, and the task of the cog loaded next is inside an iteration
C21_Witness ==
    /\ Len(refresher.tasks) = 2
    /\ refresher.tasks[1].terminated = "cancelled"
    /\ refresher.tasks[1].iterations > 0
    /\ refresher.tasks[2].pc = "iterating"

\* Task i was cancelled and has not run since
CancelPending(i) ==
    i <= Len(refresher.tasks) /\ refresher.tasks[i].must_cancel

\* Task i returned
Ended(i) == i <= Len(refresher.tasks) /\ refresher.tasks[i].pc = "done"

\* C22: the first step a cancelled task takes ends it without starting an
\* iteration; a task that ended stays as it is; a task only ever ends by
\* cancellation, never by an exception of an iteration; and a cancelled
\* task does end.
C22_CancelledLoopStops ==
    /\ [][\A i \in 1..Len(refresher.tasks) :
             /\ refresher.tasks[i].must_cancel
                /\ refresher'.tasks[i] # refresher.tasks[i]
                   => /\ refresher'.tasks[i].pc = "done"
                      /\ refresher'.tasks[i].iterations
                            = refresher.tasks[i].iterations
             /\ refresher.tasks[i].pc = "done"
                   => refresher'.tasks[i] = refresher.tasks[i]]_vars
    /\ [](\A i \in 1..Len(refresher.tasks) :
             refresher.tasks[i].pc = "done"
                => refresher.tasks[i].terminated = "cancelled")
    /\ \A i \in 1..MaxTasks : CancelPending(i) ~> Ended(i)

\* C22 witness: the first iteration of a task raised, the task went on to
\* a second iteration, was cancelled and ended
C22_Witness ==
    \E i \in 1..Len(refresher.tasks) :
        /\ refresher.tasks[i].raised = 1
        /\ refresher.tasks[i].iterations = 2
        /\ refresher.tasks[i].pc = "done"
        /\ refresher.tasks[i].terminated = "cancelled"

----------------------------------------------------------------------------
(* Claims on the store methods                                              *)

\* C23: a remove_bookmark whose store call does not fail returns True,
\* whether the pair was bookmarked or not; after it the pair is not
\* bookmarked, and one more remove_bookmark returns True and leaves the
\* table as it is.
C23_RemoveBookmarkIdempotent ==
    (RemoveRan /\ last.clean) =>
        /\ last.ret
        /\ ~is_bookmarked(bookmarks, last.user, last.key)
        /\ remove_bookmark(bookmarks, last.user, last.key, TRUE)
              = <<bookmarks, TRUE>>

\* C23 witness: a remove_bookmark for a pair that was not bookmarked
\* returned True
C23_Witness ==
    RemoveRan /\ ~last.hadBookmark /\ last.ret /\ faults = 0

\* The store methods of the two managers
StoreMethods ==
    {"add_bookmark", "remove_bookmark", "is_bookmarked", "get_user_bookmarks",
     "add_to_wishlist", "remove_from_wishlist", "clear_user_wishlist",
     "is_in_wishlist", "get_user_wishlist", "get_user_visibility",
     "set_user_visibility"}

\* C24: no call of a store method raises; a call whose store operation
\* failed returns False or an empty list.
C24_StoreMethodsNeverRaise ==
    wlast.op \in StoreMethods =>
        /\ wlast.reply # "raised"
        /\ ~wlast.clean =>
              \/ wlast.reply = "bool" /\ ~wlast.ret
              \/ wlast.reply = "list" /\ wlast.content = <<>>

\* C25: a call of add_to_wishlist with a game without an id returns False
\* and leaves the wishlists table as it was.
C25_NoIdRejected ==
    [][wlast'.op = "add_to_wishlist" /\ NoGameId(wlast'.game.id)
          => wishlists' = wishlists /\ ~wlast'.ret]_vars

\* C25 witness: add_to_wishlist was called with a game without an id, the
\* store answering, while the table held a row; it returned False
C25_Witness ==
    /\ wlast.op = "add_to_wishlist"
    /\ NoGameId(wlast.game.id)
    /\ wlast.clean
    /\ ~wlast.ret
    /\ wishlists # <<>>

\* The dated elements of release_dates
NestedDates(game) ==
    { game.release_dates[i] : i \in { j \in 1..Len(game.release_dates) :
                                         game.release_dates[j] # NoTs } }

\* C30: the row a successful add_to_wishlist stored holds the game's own
\* first_release_date when it has one, otherwise the least date of its
\* release_dates elements, otherwise no date.
C30_ReleaseDateNormalized ==
    (wlast.op = "add_to_wishlist" /\ wlast.ret) =>
        LET g == wlast.game
            stored == WishlistRowOf(wishlists, wlast.user, g.id).first_release_date
        IN  /\ is_in_wishlist(wishlists, wlast.user, g.id)
            /\ g.first_release_date # NoTs => stored = g.first_release_date
            /\ g.first_release_date = NoTs /\ NestedDates(g) # {} =>
                  /\ stored \in NestedDates(g)
                  /\ \A d \in NestedDates(g) : stored <= d
            /\ g.first_release_date = NoTs /\ NestedDates(g) = {} =>
                  stored = NoTs

\* C30 witness: a game without a date of its own and with release_dates
\* elements dated 300 and 200 was stored with 200
C30_Witness ==
    /\ wlast.op = "add_to_wishlist"
    /\ wlast.ret
    /\ wlast.game.first_release_date = NoTs
    /\ NestedDates(wlast.game) = {200, 300}
    /\ WishlistRowOf(wishlists, wlast.user, wlast.game.id).first_release_date = 200

----------------------------------------------------------------------------
(* Claims on the owner check of the per-user buttons                        *)

Stores == <<news_entries, bookmarks, wishlists, user_settings>>

\* The wishlist buttons that act for the owner of their panel
OwnedWishlistOps ==
    {"AddToWishlistButton", "add_to_wishlist:select",
     "RemoveFromWishlistButton", "ClearWishlistView.confirm"}

\* A wishlist button has just been pressed by someone else than its owner
StrangerPressedWishlist ==
    /\ wlast' # wlast
    /\ wlast'.op \in OwnedWishlistOps
    /\ wlast'.user # wlast'.target

\* A bookmark button has just been pressed by a user who owns no panel with
\* that button on that entry: the panel is someone else's
StrangerPressedBookmark ==
    /\ last' # last
    /\ last'.op \in {"AddBookmarkButton", "RemoveBookmarkButton"}
    /\ ~\E pv \in BagToSet(bmPanels) :
           /\ pv.user_id = last'.user
           /\ pv.entry = last'.entry
           /\ pv.is_bookmarked = (last'.op = "RemoveBookmarkButton")

\* C26: a press of add bookmark, remove bookmark, add to wishlist, remove
\* from wishlist or confirm clear-wishlist by a user other than the owner of
\* the panel is answered "not your button" and changes no store: entries,
\* bookmarks, wishlists and settings are as before, and no add_to_wishlist
\* call is started.
C26_StrangerRejected ==
    [][/\ StrangerPressedWishlist =>
            /\ wlast'.reply = "forbidden"
            /\ UNCHANGED Stores
            /\ UNCHANGED wlCalls
       /\ StrangerPressedBookmark =>
            /\ last'.reply = "forbidden"
            /\ UNCHANGED Stores]_vars

\* A stranger pressed "remove" on a bookmark panel and "confirm" on a clear
\* panel; the bookmark and the wishlist rows they aimed at are still there
C26_Witness ==
    /\ last.op = "RemoveBookmarkButton"
    /\ last.reply = "forbidden"
    /\ last.hadBookmark
    /\ \E u \in Users \ {last.user} : is_bookmarked(bookmarks, u, last.key)
    /\ wlast.op = "ClearWishlistView.confirm"
    /\ wlast.user # wlast.target
    /\ wlast.reply = "forbidden"
    /\ get_user_wishlist(wishlists, wlast.target) # <<>>

----------------------------------------------------------------------------
(* Claims on the life of a paginated view                                   *)

NavigationOps == {"prev", "next", "toggle_sort", "select_item"}

\* C27: once the inactivity timeout of a paginated view (wishlist list
\* panel, bookmarks list panel, embed paginator) has fired, the message
\* shows its controls disabled, and every prev, next, toggle_sort or
\* select_item that arrives afterwards is rejected and leaves the view as
\* it was.
C27_TimedOutViewDisabled ==
    screen.view = "timed_out" =>
        /\ screen.components # "enabled"
        /\ (screen.delivered.after_timeout /\ screen.delivered.op \in NavigationOps)
              => screen.delivered.outcome = "rejected" /\ ~screen.delivered.changed

\* C28: once close has run on a list panel, every prev, next, toggle_sort
\* or select_item that arrives afterwards is rejected and leaves the view
\* as it was.
C28_ClosedPanelTakesNothing ==
    (/\ listPanel.kind \in {"wishlist", "bookmarks"}
     /\ screen.delivered.after_close
     /\ screen.delivered.op \in NavigationOps)
        => screen.delivered.outcome = "rejected" /\ ~screen.delivered.changed

\* The same items, each as often
SameItems(a, b) ==
    /\ Len(a) = Len(b)
    /\ \A x \in Range(a) \cup Range(b) : CountOf(a, x) = CountOf(b, x)

\* C29: from its opening on, a list panel shows the rows it was opened
\* with: prev, next, toggle_sort and select_item leave the snapshot and the
\* set of listed items as they were, and select_item opens a row of the
\* snapshot, whatever add, remove, clear or refresh the store has seen since.
C29_SnapshotNotRequeried ==
    [][listPanel.kind # "none" =>
          /\ listPanel'.kind = listPanel.kind
          /\ listPanel'.original_games = listPanel.original_games
          /\ SameItems(listPanel'.games, listPanel.games)
          /\ screen'.detail # screen.detail =>
                screen'.detail[1] \in Range(listPanel.original_games)]_vars

\* A wishlist panel of two rows sorted again by its button after the
\* wishlist of its user was changed in the store
C29_Witness ==
    /\ listPanel.kind = "wishlist"
    /\ Len(listPanel.original_games) = 2
    /\ listPanel.op = "toggle_sort"
    /\ screen.delivered.outcome = "handled"
    /\ SameItems(listPanel.games, listPanel.original_games)
    /\ Range(get_user_wishlist(wishlists, PanelUser))
          # Range(listPanel.original_games)

----------------------------------------------------------------------------
(* Claims on the bookmark list and the stub insert                          *)

\* The bookmarks rows of u in the order their INSERT OR REPLACE ran
BookmarksOf(u) == SelectSeq(bookmarks, LAMBDA r : r.user_id = u)

\* C31: get_user_bookmarks(u) returns one row per bookmark of u and no
\* other, the bookmark added (or added again) last first; a bookmark whose
\* entry_id has no news_entries row is returned with title, url, summary,
\* content, image_url and published_at null.
C31_BookmarksNewestFirst ==
    \A u \in Users :
        LET rows == get_user_bookmarks(news_entries, bookmarks, u)
            mine == BookmarksOf(u)
        IN  /\ Len(rows) = Len(mine)
            /\ \A i \in 1..Len(rows) :
                  /\ rows[i].entry_id = mine[Len(mine) + 1 - i].entry_id
                  /\ rows[i].added_at = mine[Len(mine) + 1 - i].added_at
                  /\ ~HasEntry(news_entries, rows[i].entry_id) =>
                        /\ rows[i].title = None
                        /\ rows[i].url = None
                        /\ rows[i].summary = None
                        /\ rows[i].content = None
                        /\ rows[i].image_url = None
                        /\ rows[i].published_at = NoTs

\* A bookmark added again while the user holds another one, which has no
\* news_entries row: the list has both, the one added again first
C31_Witness ==
    /\ wlast.op = "add_bookmark"
    /\ wlast.hadRow
    /\ wlast.ret
    /\ Len(get_user_bookmarks(news_entries, bookmarks, wlast.user)) = 2
    /\ \E i \in 1..2 :
          /\ ~HasEntry(news_entries, BookmarksOf(wlast.user)[i].entry_id)
          /\ get_user_bookmarks(news_entries, bookmarks, wlast.user)[3 - i].title = None

\* C32: an add_bookmark for an entry_id that already has a news_entries row
\* leaves that row as it was: the stub insert does not overwrite what the
\* poller wrote.
C32_StubKeepsEntryRow ==
    [][(last'.op = "AddBookmarkButton" /\ now' # now /\ HasEntry(news_entries, last'.key))
          => /\ HasEntry(news_entries', last'.key)
             /\ EntryRow(news_entries', last'.key) = EntryRow(news_entries, last'.key)]_vars

\* A bookmark added for an entry the poller had stored with its summary
C32_Witness ==
    /\ last.op = "AddBookmarkButton"
    /\ last.ret
    /\ last.hadEntry
    /\ is_bookmarked(bookmarks, last.user, last.key)
    /\ HasEntry(news_entries, last.key)
    /\ EntryRow(news_entries, last.key).posted_at < now

----------------------------------------------------------------------------
(* Claims on the cycle of the poller                                        *)

\* C33: between two sleeps of run_miniflux_loop the feed source is fetched
\* once, and the batch whose size selects the sleep interval is the batch
\* whose items are posted.
C33_OneFetchPerCycle ==
    poller.pc = "sleep" =>
        /\ poller.fetches = 1
        /\ poller.failure = "none" =>
              poller.entry_count_before = Len(poller.entries)

\* C34: a cycle whose fetch of the unread items failed posts no item, does
\* not call mark_as_read and sleeps the fixed 60 seconds before the next
\* fetch.
C34_FetchFailureBacksOff ==
    poller.pc = "sleep" /\ poller.failure \in {"fetch", "process_fetch"} =>
        /\ poller.results = <<>>
        /\ poller.marks = <<>>
        /\ poller.sleep_time = RetrySleep

\* C35: for every item post_entry handled, a channel post is attempted only
\* after the upsert of the item was attempted, and once the upsert was
\* attempted the channel post is attempted too, whether the upsert succeeded
\* or failed.
C35_UpsertThenPost ==
    \A r \in Range(poller.results) :
        /\ \A i \in 1..Len(r.calls) :
              r.calls[i].op = "send" =>
                  \E j \in 1..(i - 1) : r.calls[j].op = "upsert"
        /\ \A j \in 1..Len(r.calls) :
              r.calls[j].op = "upsert" =>
                  \E i \in (j + 1)..Len(r.calls) : r.calls[i].op = "send"

\* An item whose upsert failed and whose post went out, after an item whose
\* upsert succeeded
C35_Witness ==
    /\ Len(poller.results) = 2
    /\ poller.results[1].persisted
    /\ ~poller.results[2].persisted
    /\ poller.results[2].calls # <<>>
    /\ poller.results[2].success

\* The step is a successful channel post of the item id
Posts(id) ==
    /\ Len(poller'.results) = Len(poller.results) + 1
    /\ poller'.results[Len(poller'.results)].id = id
    /\ poller'.results[Len(poller'.results)].success

\* C36: an item is posted only while it is unread upstream, so a post of an
\* item that is in the channel already happens only when no mark-read of it
\* succeeded; an item marked read stays read and is not posted again.
C36_RepostOnlyWhileUnread ==
    [][\A id \in PollIds :
          /\ Posts(id) => upstream[id] = "unread"
          /\ upstream[id] = "read" => upstream'[id] = "read" /\ ~Posts(id)]_vars

\* An item posted a second time, its row in the Entry Store and its message
\* in the channel notwithstanding, and then marked read
C36_Witness ==
    \E id \in poller.again :
        /\ upstream[id] = "read"
        /\ PollItem(id) \in channel

----------------------------------------------------------------------------
(* Claims on the sort toggle of the wishlist list panel                     *)

\* The rows are in the order of _release_ts, descending or ascending
InReleaseOrder(games, descending) ==
    \A i, j \in 1..Len(games) :
        i < j => IF descending
                 THEN PanelReleaseTs(games[i]) >= PanelReleaseTs(games[j])
                 ELSE PanelReleaseTs(games[i]) <= PanelReleaseTs(games[j])

\* C38: a toggle_sort of the wishlist list panel puts the whole snapshot in
\* the other release order and leaves current_page, max_page and the
\* multiset of items as they were; a second toggle shows the items in the
\* order they had before the first.
C38_ToggleSortKeepsPageAndItems ==
    /\ [][(listPanel.kind = "wishlist" /\ listPanel'.kind = "wishlist"
             /\ listPanel'.sort_descending # listPanel.sort_descending)
          => /\ listPanel'.current_page = listPanel.current_page
             /\ listPanel'.max_page = listPanel.max_page
             /\ SameItems(listPanel'.games, listPanel.games)
             /\ InReleaseOrder(listPanel'.games, listPanel'.sort_descending)
             /\ ToggleSort(listPanel').games = listPanel.games]_vars
    /\ [](listPanel.kind = "wishlist"
             => ToggleSort(ToggleSort(listPanel)).games = listPanel.games)

\* A panel of several pages, on a later page, its items with equal and
\* missing dates re-sorted ascending
C38_Witness ==
    /\ listPanel.kind = "wishlist"
    /\ listPanel.op = "toggle_sort"
    /\ ~listPanel.sort_descending
    /\ listPanel.current_page > 0
    /\ listPanel.from = listPanel.current_page
    /\ listPanel.games # PanelSortDesc(listPanel.original_games)
    /\ \E i, j \in 1..Len(listPanel.games) :
          /\ i # j
          /\ PanelReleaseTs(listPanel.games[i]) = PanelReleaseTs(listPanel.games[j])

----------------------------------------------------------------------------
(* Claims on the bulk refresh and the rows of the users                     *)

\* A wishlists row without its release date
OtherColumns(r) == [r EXCEPT !.first_release_date = NoTs]

\* C39: a step of refresh_all_wishlist_dates leaves the wishlists table with
\* the same rows, each with its user_id, game_id, name, slug, cover_url,
\* platforms and added_at; only first_release_date may differ. A row a user
\* removed while the refresh runs is not there afterwards, and
\* user_settings is as it was.
C39_RefreshWritesDatesOnly ==
    [][refresh' # refresh =>
          /\ user_settings' = user_settings
          /\ Len(wishlists') = Len(wishlists)
          /\ \A i \in 1..Len(wishlists) :
                OtherColumns(wishlists'[i]) = OtherColumns(wishlists[i])]_vars

\* A finished refresh that counted as updated a game whose row its user
\* removed meanwhile: the game has no row, another row got the new date and
\* a settings row exists
C39_Witness ==
    /\ RefreshDone
    /\ user_settings # {}
    /\ \E k \in 1..Len(refresh.counted) :
          /\ refresh.counted[k] = "updated"
          /\ \A i \in 1..Len(wishlists) : wishlists[i].game_id # refresh.ids[k]
    /\ \E i \in 1..Len(wishlists) : wishlists[i].first_release_date \in NewDates

\* C40: when a refresh that found the metadata source returns, updated +
\* unchanged + missing + failed is the number of distinct game ids it read
\* from wishlists, an id held by several users counted once.
C40_EachIdCountedOnce ==
    RefreshDone =>
        refresh.updated + refresh.unchanged + refresh.missing + refresh.failed
            = Cardinality(Range(refresh.ids))

=============================================================================
